---- MODULE Spec2Model ----
(***************************************************************************)
(* A model of the balance synchronization engine of CryptoPortfolio:       *)
(* the scheduler (Start/Stop, periodic driver, retention sweeper), the     *)
(* global cycle (dispatcher, worker pool, collector, storeBalance), the    *)
(* on-demand per-user refresh (FetchBalancesForUser), the token-bucket     *)
(* rate limiter and the address validation of the chain client.            *)
(***************************************************************************)
EXTENDS Integers, Sequences, FiniteSets, TLC

VARIABLES
    \* ---- watchlist store (repository) ----
    wallets,        \* rows of watchlist_wallets, in query order
    tokens,         \* rows of tracked_tokens, in query order
    balances,       \* rows of wallet_balances, in insertion order
    now,            \* wall clock, in days
    \* ---- cache provider ----
    cache,          \* set of keys currently present
    cacheUp,        \* the cache provider answers (FALSE: every Set and Delete fails)
    \* ---- balanceFetcherService: lifecycle ----
    started,        \* Start() has been called
    stopPc,         \* Stop(): "idle" | "closed" (stopChan closed, in wg.Wait) | "returned"
    wgCount,        \* bfs.wg counter
    ctxDone,        \* the context passed to Start() is done
    driverPc,       \* runBalanceFetcher: "none" | "initial" | "cycle" | "select" | "exited"
    tickPending,    \* a tick is buffered in the driver's ticker.C
    sweeperPc,      \* runCleanup: "none" | "select" | "exited"
    sweepPending,   \* a tick is buffered in the sweeper's ticker.C
    \* ---- one global cycle (fetchAllBalances) ----
    nWorkers,       \* config.Web3.MaxWorkers
    fetchCtxDone,   \* fetchCtx of the cycle in flight is done
    enum,           \* [wallets, tokens] enumerated at the start of the cycle
    dispPc,         \* dispatcher goroutine: "none" | "run" | "done"
    dispK,          \* linear index of the next (wallet, token) pair to consider
    taskChan,       \* buffered channel of fetchTask
    taskClosed,     \* close(taskChan) executed
    workers,        \* worker -> [pc, task, ok]
    resultChan,     \* buffered channel of fetchResult
    resultClosed,   \* close(resultChan) executed
    \* ---- on-demand refresh (FetchBalancesForUser) ----
    uf,             \* the call in flight: [pc, user, ws, ts, k, ret]
    ufCtxDone,      \* the context passed to the call is done
    ufFetchDone,    \* fetchCtx (2 minute timeout) of the call is done
    \* ---- history of the run (observers, read by no action's guard) ----
    cyclesBegun,    \* number of calls of fetchAllBalances by the driver
    ticksConsumed,  \* number of ticks the driver has received from ticker.C
    hist,           \* per cycle: pair -> times enqueued / taken / answered
    tally,          \* per cycle: successCount, errorCount and what the cycle returned
    \* ---- RateLimiter ----
    rlTokens,       \* rl.tokens: the buffered channel, each token named by its number
    rlTickPending,  \* a tick is buffered in rl.ticker.C
    rlClock,        \* time, in ticker periods (time.Second / rate)
    rlAdded,        \* number of tokens the refill loop has put into the bucket
    rlCallers,      \* caller -> [pc, ctxDone, ret] of its Wait call
    rlGrants,       \* the successful Waits so far: [caller, token, at]
    \* ---- ValidateAddress ----
    vaAddress,      \* the argument, a string as the sequence of its characters
    vaResult,       \* <<>> before the call, then <<the value returned>>
    \* ---- GetETHBalance / GetTokenBalance ----
    gb,             \* the call: its arguments, position, attempt and what it did
    gbCtxDone,      \* the context passed to the call is done
    gbTimerFired,   \* the channel of time.After(backoff) is ready
    \* ---- watchlistService (GetBalances, RefreshBalances, DeleteToken) ----
    cachedBalances, \* user -> the value stored under user_balances:<user>
    getb,           \* the GetBalances call in flight
    rb,             \* the RefreshBalances call in flight
    dt,             \* the DeleteToken call in flight
    sb,             \* what the collector's storeBalance calls made here returned
    \* ---- watchlistService (AddWallet, DeleteWallet, AddToken, GetBalanceHistory) ----
    deleted,        \* the soft-deleted rows: [wallets, tokens], still in their tables
    wm,             \* the last of these calls, what it returned, and their counts
    aw,             \* request -> an AddWallet call that runs beside the others
    \* ---- UserCache ----
    userEntries,    \* key -> the JSON stored under it in redis, <<>> when absent
    uc,             \* the last UserCache call: [op, key, ret, user]
    ucHist,         \* observer: key -> "never" set, "set", or "invalidated"
    \* ---- BalanceFetcherService used again after Stop ----
    reuse           \* the Stop calls on the closed channel, the Start calls after Stop

storeVars == <<wallets, tokens, balances, now, cache, cacheUp>>
lifeVars  == <<started, stopPc, wgCount, ctxDone, driverPc, tickPending,
               sweeperPc, sweepPending>>
cycleVars == <<nWorkers, fetchCtxDone, enum, dispPc, dispK, taskChan, taskClosed,
               workers, resultChan, resultClosed>>
ufVars    == <<uf, ufCtxDone, ufFetchDone>>
histVars  == <<cyclesBegun, ticksConsumed, hist, tally>>
engineVars == <<storeVars, lifeVars, cycleVars, ufVars, histVars>>
rlVars == <<rlTokens, rlTickPending, rlClock, rlAdded, rlCallers, rlGrants>>
vaVars == <<vaAddress, vaResult>>
gbVars == <<gb, gbCtxDone, gbTimerFired>>
wlVars == <<cachedBalances, getb, rb, dt, sb>>
wmVars == <<deleted, wm, aw>>
ucVars == <<userEntries, uc, ucHist>>
reuseVars == <<reuse>>
vars == <<engineVars, rlVars, vaVars, gbVars, wlVars, wmVars, ucVars, reuseVars>>

\* what an action of one component leaves alone
outsideEngine == <<rlVars, vaVars, gbVars, wlVars, wmVars, ucVars, reuseVars>>
outsideRl == <<engineVars, vaVars, gbVars, wlVars, wmVars, ucVars, reuseVars>>
outsideVa == <<engineVars, rlVars, gbVars, wlVars, wmVars, ucVars, reuseVars>>
outsideGb == <<engineVars, vaVars, wlVars, wmVars, ucVars, reuseVars>>
outsideWl == <<rlVars, vaVars, gbVars, wmVars, ucVars, reuseVars>>
outsideWm == <<rlVars, vaVars, gbVars, ucVars, reuseVars>>
outsideUc == <<engineVars, rlVars, vaVars, gbVars, wlVars, wmVars, reuseVars>>

-----------------------------------------------------------------------------
(* Bounds of the model.                                                    *)

\* largest configured size of the worker pool
MaxWorkers == 2
\* capacity of taskChan (100 in the source, scaled so that it fills)
TaskChanCap == 1
\* capacity of resultChan (100 in the source, scaled so that it fills)
ResultChanCap == 1
\* number of global cycles the driver may begin
MaxCycles == 2
\* number of FetchBalancesForUser calls
MaxCalls == 1
\* last day of the clock
MaxDays == 31

\* tokens per second of the rate limiter (NewRateLimiter's rate)
Rate == 2
\* last ticker period of the rate limiter's clock
RlMaxClock == 3
\* number of goroutines calling RateLimiter.Wait
MaxCallers == 2
\* number of GetBalances calls
MaxReads == 2
\* number of DeleteToken calls
MaxDeletes == 1
\* number of results the collector stores beside the watchlist service
MaxStores == 1

\* number of single days that pass within one retention window
MaxDayTicks == 1
\* number of AddWallet, AddToken, DeleteWallet and DeleteToken calls together
MaxMutations == 2
\* number of AddWallet requests in flight together
MaxAdds == 2

\* retention window of the sweeper, in days
RetentionDays == 30

NIL == "nil"

Min(S) == CHOOSE x \in S : \A y \in S : x <= y

-----------------------------------------------------------------------------
(* The watchlist store.                                                    *)

Wallet(id, u, a) == [ID |-> id, UserID |-> u, WalletAddress |-> a]
TrackedToken(id, u, a, sym) ==
    [ID |-> id, UserID |-> u, TokenAddress |-> a, TokenSymbol |-> sym]
Token(id, u, a)  == TrackedToken(id, u, a, IF a = NIL THEN "ETH" ELSE "TKN")

\* Populations of the store the model starts from.
\* two users, each with one wallet, both tracking the native asset
PopSharedNative ==
    [wallets |-> <<Wallet(1, 1, "0xA"), Wallet(2, 2, "0xB")>>,
     tokens  |-> <<Token(1, 1, NIL), Token(2, 2, NIL)>>]
\* one user, one wallet, the native asset and one contract token
PopOneUser ==
    [wallets |-> <<Wallet(1, 1, "0xA")>>,
     tokens  |-> <<Token(1, 1, NIL), Token(2, 1, "0xT")>>]
\* one user, one wallet, the native asset
PopOnePair ==
    [wallets |-> <<Wallet(1, 1, "0xA")>>,
     tokens  |-> <<Token(1, 1, NIL)>>]
\* two users tracking the same wallet address, with different tokens
PopSharedWallet ==
    [wallets |-> <<Wallet(1, 1, "0xA"), Wallet(2, 2, "0xA")>>,
     tokens  |-> <<Token(1, 1, "0xT"), Token(2, 2, NIL)>>]

Populations == {PopSharedNative, PopOneUser, PopSharedWallet}

Users == {1, 2}

GetWalletsByUserID(u) == SelectSeq(wallets, LAMBDA w : w.UserID = u)
GetTokensByUserID(u)  == SelectSeq(tokens, LAMBDA t : t.UserID = u)

Balance(wid, tid) == [WalletID |-> wid, TokenID |-> tid, FetchedAt |-> now]

\* a store that keeps one row per (wallet, token) and overwrites it
CreateBalance_Upsert(bs, b) ==
    Append(SelectSeq(bs, LAMBDA x : ~(x.WalletID = b.WalletID /\ x.TokenID = b.TokenID)), b)

\* db.Create(balance): a new row, after the rows there are
CreateBalance(bs, b) == Append(bs, b)

\* a sweep that takes the rows at the cutoff as well
DeleteOldBalances_Inclusive(bs, olderThan) ==
    SelectSeq(bs, LAMBDA b : ~(b.FetchedAt <= now - olderThan))

\* Where("fetched_at < ?", time.Now().Add(-olderThan)).Delete(...)
DeleteOldBalances(bs, olderThan) ==
    SelectSeq(bs, LAMBDA b : ~(b.FetchedAt < now - olderThan))

\* a Delete that looks at the id alone
DeleteMatch_AnyOwner(row, id, u) == row.ID = id

\* Where("id = ? AND user_id = ?", id, userID)
DeleteMatch(row, id, u) == row.ID = id /\ row.UserID = u

\* the rows a Delete soft-deletes, and the rows queries still see after it
DeletedRows(rows, id, u) ==
    {rows[i] : i \in {j \in 1..Len(rows) : DeleteMatch(rows[j], id, u)}}

DeleteWallet(ws, walletID, userID) ==
    SelectSeq(ws, LAMBDA w : ~DeleteMatch(w, walletID, userID))

DeleteToken(ts, tokenID, userID) ==
    SelectSeq(ts, LAMBDA t : ~DeleteMatch(t, tokenID, userID))

\* a Delete that takes the snapshots of the row with it
snapshotsAfterDelete_Cascade(bs, gone) ==
    SelectSeq(bs, LAMBDA b : \A r \in gone : b.WalletID # r.ID)

\* wallet_balances after a Delete on watchlist_wallets or tracked_tokens: the
\* Delete names one model and selects no association
snapshotsAfterDelete(bs, gone) == bs

\* the primary key of the next row of a table: soft-deleted rows keep theirs
NextID(rows, gone) == Len(rows) + Cardinality(gone) + 1

BalanceKey(wid, tid) == <<"balance", wid, tid>>
UserBalancesKey(u)   == <<"user_balances", u>>

-----------------------------------------------------------------------------
(* fetchTask, fetchResult and the dispatcher's enumeration.                *)

\* the pair field names the (wallet, token) pair a task was made from; the
\* program's task carries the two addresses only
fetchTask(w, t, p) ==
    [walletAddress |-> w.WalletAddress, tokenAddress |-> t.TokenAddress, pair |-> p]

fetchResult(task, ok) ==
    [walletAddress |-> task.walletAddress, tokenAddress |-> task.tokenAddress,
     ok |-> ok, pair |-> task.pair]

NumPairs(e) == Len(e.wallets) * Len(e.tokens)
PairW(e, k) == e.wallets[((k - 1) \div Len(e.tokens)) + 1]
PairT(e, k) == e.tokens[((k - 1) % Len(e.tokens)) + 1]

\* a dispatcher that pairs every wallet with every token
SameOwner_Any(w, t) == TRUE

SameOwner(w, t) == w.UserID = t.UserID

\* the first pair at or after k that the dispatcher's loop sends, or past the end
NextMatch(e, k) ==
    LET S == {m \in k..NumPairs(e) : SameOwner(PairW(e, m), PairT(e, m))}
    IN  IF S = {} THEN NumPairs(e) + 1 ELSE Min(S)

ZeroHist(e) ==
    [p \in 1..NumPairs(e) |-> [enq |-> 0, taken |-> 0, res |-> 0]]

\* successCount and errorCount of fetchAllBalances; ret: what the call returned;
\* enumFailed: GetAllWallets or GetAllTokens failed; deadline: fetchCtx was done
\* when the call returned
ZeroTally == [successCount |-> 0, errorCount |-> 0, ret |-> "none",
              enumFailed |-> FALSE, deadline |-> FALSE]

\* the zero fetchTask of a worker that holds none
NoTask == [walletAddress |-> NIL, tokenAddress |-> NIL, pair |-> 0]

IdleWorker == [pc |-> "none", task |-> NoTask, ok |-> FALSE]
\* pending: the context was cancelled while the call still had work to do;
\* stopAtCall: where Stop() was when the call was made;
\* listFailed: GetWalletsByUserID or GetTokensByUserID returned an error;
\* tried, failed: calls of fetchAndStoreBalance, and those that returned an error;
\* base: number of snapshots in the store when the call was made;
\* lastIn: what the last fetchAndStoreBalance met (chain call, store, context);
\* lastWrite: the store's size after the last snapshot the call persisted;
\* readsAtRet: the number of GetBalances calls begun when the call returned
IdleUf == [pc |-> "idle", user |-> 0, ws |-> <<>>, ts |-> <<>>, k |-> 0,
           ret |-> "none", calls |-> 0, pending |-> FALSE, stopAtCall |-> "idle",
           listFailed |-> FALSE, tried |-> 0, failed |-> 0, base |-> 0,
           lastIn |-> NIL, lastWrite |-> 0, readsAtRet |-> 0]

-----------------------------------------------------------------------------
(* storeBalance: resolve the wallet and the token of a result by address.  *)

FirstOf(S) == IF S = {} THEN 0 ELSE Min(S)

FindWallet(ws, result) ==
    FirstOf({i \in 1..Len(ws) : ws[i].WalletAddress = result.walletAddress})

FindToken(ts, result) ==
    FirstOf({i \in 1..Len(ts) : ts[i].TokenAddress = result.tokenAddress})


\* a store step that writes the cache entry before the snapshot, whether or
\* not the snapshot is then stored
persist_CacheFirst(wid, tid, dbok, cok) ==
    /\ cache' = IF cok /\ wid # 0 /\ tid # 0
                THEN cache \cup {BalanceKey(wid, tid)} ELSE cache
    /\ balances' = IF dbok /\ wid # 0 /\ tid # 0
                   THEN CreateBalance(balances, Balance(wid, tid)) ELSE balances

\* a store step that also drops the aggregate entries of the users
persist_Invalidate(wid, tid, dbok, cok) ==
    IF dbok /\ wid # 0 /\ tid # 0
    THEN /\ balances' = CreateBalance(balances, Balance(wid, tid))
         /\ cache' = IF cok
                     THEN (cache \ {UserBalancesKey(u) : u \in Users})
                             \cup {BalanceKey(wid, tid)}
                     ELSE cache
    ELSE UNCHANGED <<balances, cache>>

\* the store effect of storeBalance / fetchAndStoreBalance for wallet row wid
\* and token row tid (0: not found): CreateBalance, then cache Set
persist(wid, tid, dbok, cok) ==
    IF dbok /\ wid # 0 /\ tid # 0
    THEN /\ balances' = CreateBalance(balances, Balance(wid, tid))
         /\ cache' = IF cok THEN cache \cup {BalanceKey(wid, tid)} ELSE cache
    ELSE UNCHANGED <<balances, cache>>

RowID(rows, i) == IF i = 0 THEN 0 ELSE rows[i].ID

\* a store step that reports an error when the cache write fails
persistErr_CacheFatal(wid, tid, dbok, cok) == ~(dbok /\ wid # 0 /\ tid # 0 /\ cok)

\* storeBalance / fetchAndStoreBalance return an error: a row was not found or
\* CreateBalance failed; a failed cache Set is logged only
persistErr(wid, tid, dbok, cok) == ~(dbok /\ wid # 0 /\ tid # 0)

storeBalanceErr(result, ctxdone, dbok, cok) ==
    persistErr(RowID(wallets, FindWallet(wallets, result)),
               RowID(tokens, FindToken(tokens, result)),
               dbok /\ ~ctxdone, cok)

\* ctxdone: the context handed to the repository is done, so every query fails
storeBalance(result, ctxdone, dbok, cok) ==
    persist(RowID(wallets, FindWallet(wallets, result)),
            RowID(tokens, FindToken(tokens, result)),
            dbok /\ ~ctxdone, cok)

\* a refresh that resolves the rows of its snapshot by address, as storeBalance does
fetchAndStoreBalance_ByAddress(wallet, token, fetchok, ctxdone, dbok, cok) ==
    IF fetchok
    THEN persist(RowID(wallets, FirstOf({i \in 1..Len(wallets) :
                     wallets[i].WalletAddress = wallet.WalletAddress})),
                 RowID(tokens, FirstOf({i \in 1..Len(tokens) :
                     tokens[i].TokenAddress = token.TokenAddress})),
                 dbok /\ ~ctxdone, cok)
    ELSE UNCHANGED <<balances, cache>>

\* fetchok: the chain call returned a balance
fetchAndStoreBalance(wallet, token, fetchok, ctxdone, dbok, cok) ==
    IF fetchok
    THEN persist(wallet.ID, token.ID, dbok /\ ~ctxdone, cok)
    ELSE UNCHANGED <<balances, cache>>

\* fetchAndStoreBalance returns an error
fetchAndStoreErr(wallet, token, fetchok, ctxdone, dbok, cok) ==
    ~fetchok \/ persistErr(wallet.ID, token.ID, dbok /\ ~ctxdone, cok)

\* a refresh that gives up at the first pair that fails
nextPair_AbortOnError(k, err, n) == IF err THEN n + 1 ELSE k + 1

\* the nested loops of FetchBalancesForUser go on to the next pair, whatever
\* fetchAndStoreBalance returned
nextPair(k, err, n) == k + 1

-----------------------------------------------------------------------------------------------------------------------------------------------------
(* The components a specification leaves out stay as constructed.          *)

RlCallers == 1..MaxCallers

RlIdleCaller == [pc |-> "idle", ctxDone |-> FALSE, ret |-> "none"]

\* NewRateLimiter: an empty bucket
RlIdle ==
    /\ rlTokens = <<>>
    /\ rlTickPending = FALSE
    /\ rlClock = 0
    /\ rlAdded = 0
    /\ rlCallers = [c \in RlCallers |-> RlIdleCaller]
    /\ rlGrants = <<>>

VaIdle ==
    /\ vaAddress = <<>>
    /\ vaResult = <<>>

\* attempts: network attempts started; causes: the attempts that failed;
\* waits: the backoff delays waited to their end; backoffs: backoff waits begun;
\* cancelledIn: where the call was when its context became done
GbCall(pc, kind, token, wallet) ==
    [pc |-> pc, kind |-> kind, token |-> token, wallet |-> wallet, attempt |-> 0,
     attempts |-> 0, causes |-> <<>>, waits |-> <<>>, backoffs |-> 0,
     ret |-> [kind |-> "none", n |-> 0], cancelledIn |-> "none"]

\* no balance call is made
GbIdle ==
    /\ gb = GbCall("none", "eth", <<>>, <<>>)
    /\ gbCtxDone = FALSE
    /\ gbTimerFired = FALSE

\* read: what GetLatestBalances returned; ret: <<>> or <<the value returned>>;
\* err: the call returned an error;
\* afterRefresh: the call began after a refresh of its user had returned, as the
\* first GetBalances since; opWrite: the store's size after the last snapshot
\* of the refresh that had returned nil, uncancelled, before the call began
IdleGetb == [pc |-> "idle", user |-> 0, read |-> NIL, ret |-> <<>>, hit |-> FALSE,
             err |-> FALSE, calls |-> 0, afterRefresh |-> FALSE, opWrite |-> 0]

IdleRb == [pc |-> "idle", user |-> 0, callNo |-> 0, ret |-> "none"]

IdleDt == [pc |-> "idle", user |-> 0, id |-> 0, calls |-> 0, ret |-> "none"]

IdleSb == [calls |-> 0, err |-> FALSE, dbok |-> FALSE]

\* op: the call; user, id: its arguments; ret: what it returned; rows: the
\* snapshots GetBalanceHistory returned; calls: the calls of AddWallet, AddToken
\* and DeleteWallet so far
IdleWm == [op |-> "none", user |-> 0, id |-> 0, ret |-> "none", rows |-> {},
           calls |-> 0]

\* pc: "idle", "create" once the check of the user's wallets found no wallet
\* with the address, "returned"; id: the row created
AwRequests == 1..MaxAdds
IdleAw == [pc |-> "idle", user |-> 0, address |-> "", ret |-> "none", id |-> 0]

\* NewWatchlistService, nothing cached
WlIdle ==
    /\ cachedBalances = [u \in Users |-> NIL]
    /\ getb = IdleGetb
    /\ rb = IdleRb
    /\ dt = IdleDt
    /\ sb = IdleSb
    /\ deleted = [wallets |-> {}, tokens |-> {}]
    /\ wm = IdleWm
    /\ aw = [r \in AwRequests |-> IdleAw]

\* models.User, the fields the services read
User(id, email, name) == [ID |-> id, Email |-> email, Name |-> name]

\* fmt.Sprintf("user:%d", userID) and fmt.Sprintf("user:email:%s", email)
UserKey(userID) == [prefix |-> "user:", id |-> userID, email |-> ""]
UserEmailKey(email) == [prefix |-> "user:email:", id |-> 0, email |-> email]

\* the ids, emails and users of the calls
UcIDs == {1, 2}
UcEmails == {"a@x", "b@x"}
UcUsers == {User(id, email, "n") : id \in UcIDs, email \in UcEmails}
UcKeys == {UserKey(id) : id \in UcIDs} \cup {UserEmailKey(e) : e \in UcEmails}

IdleUc == [op |-> "none", key |-> UserKey(0), ret |-> "none", user |-> <<>>]

\* NewUserCache over an empty redis
UcIdle ==
    /\ userEntries = [k \in UcKeys |-> <<>>]
    /\ uc = IdleUc
    /\ ucHist = [k \in UcKeys |-> "never"]

\* stops: the Stop calls made with stopChan closed; starts: the Start calls made
\* after a Stop had returned; cyclesAtStart: the cycles begun before the last
\* of them
IdleReuse == [stops |-> 0, starts |-> 0, cyclesAtStart |-> 0]

ReuseIdle == reuse = IdleReuse

\* the components beside the engine, as constructed
OthersIdle == RlIdle /\ VaIdle /\ GbIdle /\ WlIdle /\ UcIdle /\ ReuseIdle

-----
(* Init: the service as NewBalanceFetcherService leaves it.                *)

EngineInit(pops, poolSizes, cacheStates) ==
    /\ \E pop \in pops : wallets = pop.wallets /\ tokens = pop.tokens
    /\ cacheUp \in cacheStates
    /\ balances = <<>>
    /\ now = 0
    /\ cache = {}
    /\ started = FALSE
    /\ stopPc = "idle"
    /\ wgCount = 0
    /\ ctxDone = FALSE
    /\ driverPc = "none"
    /\ tickPending = FALSE
    /\ sweeperPc = "none"
    /\ sweepPending = FALSE
    /\ nWorkers \in poolSizes
    /\ fetchCtxDone = FALSE
    /\ enum = [wallets |-> <<>>, tokens |-> <<>>]
    /\ dispPc = "none"
    /\ dispK = 1
    /\ taskChan = <<>>
    /\ taskClosed = FALSE
    /\ workers = [w \in 1..MaxWorkers |-> IdleWorker]
    /\ resultChan = <<>>
    /\ resultClosed = FALSE
    /\ uf = IdleUf
    /\ ufCtxDone = FALSE
    /\ ufFetchDone = FALSE
    /\ cyclesBegun = 0
    /\ ticksConsumed = 0
    /\ hist = <<>>
    /\ tally = ZeroTally

-----------------------------------------------------------------------------
(* Start and Stop.                                                         *)

Start ==
    /\ ~started
    /\ started' = TRUE
    /\ wgCount' = wgCount + 2
    /\ driverPc' = "initial"
    /\ sweeperPc' = "select"
    /\ UNCHANGED <<stopPc, ctxDone, tickPending, sweepPending>>
    /\ UNCHANGED <<storeVars, cycleVars, ufVars, histVars>>
    /\ UNCHANGED outsideEngine

\* close(bfs.stopChan)
Stop_close ==
    /\ started
    /\ stopPc = "idle"
    /\ stopPc' = "closed"
    /\ UNCHANGED <<started, wgCount, ctxDone, driverPc, tickPending, sweeperPc,
                   sweepPending>>
    /\ UNCHANGED <<storeVars, cycleVars, ufVars, histVars>>
    /\ UNCHANGED outsideEngine

\* a Stop that does not wait for the wait group
wgWait_NoWait == TRUE

\* bfs.wg.Wait() lets its caller through
wgWait == wgCount = 0

\* a goroutine that returns without its deferred wg.Done()
wgDone_Missing(n) == n

\* defer bfs.wg.Done()
wgDone(n) == n - 1

Stop_return ==
    /\ stopPc = "closed"
    /\ wgWait
    /\ stopPc' = "returned"
    /\ UNCHANGED <<started, wgCount, ctxDone, driverPc, tickPending, sweeperPc,
                   sweepPending>>
    /\ UNCHANGED <<storeVars, cycleVars, ufVars, histVars>>
    /\ UNCHANGED outsideEngine

\* the context passed to Start is cancelled; the fetchCtx derived from it follows
cancelStartCtx ==
    /\ started
    /\ ~ctxDone
    /\ ctxDone' = TRUE
    /\ fetchCtxDone' = (fetchCtxDone \/ driverPc = "cycle")
    /\ UNCHANGED <<started, stopPc, wgCount, driverPc, tickPending, sweeperPc,
                   sweepPending>>
    /\ UNCHANGED <<nWorkers, enum, dispPc, dispK, taskChan, taskClosed, workers,
                   resultChan, resultClosed>>
    /\ UNCHANGED <<storeVars, ufVars, histVars>>
    /\ UNCHANGED outsideEngine

-----------------------------------------------------------------------------
(* fetchAllBalances up to the start of the pool; the collector loop is the *)
(* driver's "cycle" state.                                                 *)

\* what fetchAllBalances returns after its two enumerations
enumReturn(ok) == IF ok THEN "nil" ELSE "err"

\* a cycle that reports its per-pair errors to its caller
cycleReturn_FailOnErrors(errorCount) == IF errorCount > 0 THEN "err" ELSE "nil"

\* what fetchAllBalances returns after the collector loop
cycleReturn(errorCount) == "nil"

\* a fetchAllBalances without its deferred cancel()
cancel_Missing(done) == done

\* defer cancel(): fetchCtx is done once fetchAllBalances has returned
cancel(done) == TRUE

fetchAllBalances_begin ==
    /\ cyclesBegun' = cyclesBegun + 1
    /\ \E dbok \in BOOLEAN :
         IF ~dbok \/ ctxDone \/ Len(wallets) = 0 \/ Len(tokens) = 0
         THEN \* enumeration failed, or nothing to fetch: return, deferred cancel()
              /\ driverPc' = "select"
              /\ fetchCtxDone' = cancel(fetchCtxDone)
              /\ tally' = [ZeroTally EXCEPT
                              !.enumFailed = (~dbok \/ ctxDone),
                              !.ret = enumReturn(dbok /\ ~ctxDone),
                              !.deadline = ctxDone]
              /\ UNCHANGED <<nWorkers, enum, dispPc, dispK, taskChan, taskClosed,
                             workers, resultChan, resultClosed, hist>>
         ELSE /\ driverPc' = "cycle"
              /\ tally' = ZeroTally
              /\ fetchCtxDone' = FALSE
              /\ enum' = [wallets |-> wallets, tokens |-> tokens]
              /\ taskChan' = <<>>
              /\ taskClosed' = FALSE
              /\ resultChan' = <<>>
              /\ resultClosed' = FALSE
              /\ workers' = [w \in 1..MaxWorkers |->
                               IF w <= nWorkers
                               THEN [IdleWorker EXCEPT !.pc = "recv"]
                               ELSE IdleWorker]
              /\ dispPc' = "run"
              /\ dispK' = NextMatch(enum', 1)
              /\ hist' = ZeroHist(enum')
              /\ UNCHANGED nWorkers

\* the cycle's 10 minute timeout fires
fetchCtx_deadline ==
    /\ driverPc = "cycle"
    /\ ~fetchCtxDone
    /\ fetchCtxDone' = TRUE
    /\ UNCHANGED <<nWorkers, enum, dispPc, dispK, taskChan, taskClosed, workers,
                   resultChan, resultClosed>>
    /\ UNCHANGED <<storeVars, lifeVars, ufVars, histVars>>
    /\ UNCHANGED outsideEngine

-----------------------------------------------------------------------------
(* runBalanceFetcher.                                                      *)

runBalanceFetcher_initial ==
    /\ driverPc = "initial"
    /\ fetchAllBalances_begin
    /\ UNCHANGED <<started, stopPc, wgCount, ctxDone, tickPending, sweeperPc,
                   sweepPending>>
    /\ UNCHANGED <<storeVars, ufVars, ticksConsumed>>
    /\ UNCHANGED outsideEngine

\* time.Ticker delivers a tick into ticker.C (capacity 1)
ticker_fire ==
    /\ driverPc \in {"initial", "cycle", "select"}
    /\ ~tickPending
    /\ cyclesBegun < MaxCycles
    /\ tickPending' = TRUE
    /\ UNCHANGED <<started, stopPc, wgCount, ctxDone, driverPc, sweeperPc,
                   sweepPending>>
    /\ UNCHANGED <<storeVars, cycleVars, ufVars, histVars>>
    /\ UNCHANGED outsideEngine

\* a driver that starts the cycle of a tick in a goroutine of its own
atSelect_Concurrent(pc) == pc \in {"select", "cycle"}

\* the driver is at its select: fetchAllBalances is called in the loop's own
\* goroutine, so the next tick is received only after it has returned
atSelect(pc) == pc = "select"

runBalanceFetcher_tick ==
    /\ atSelect(driverPc)
    /\ tickPending
    /\ cyclesBegun < MaxCycles
    /\ tickPending' = FALSE
    /\ ticksConsumed' = ticksConsumed + 1
    /\ fetchAllBalances_begin
    /\ UNCHANGED <<started, stopPc, wgCount, ctxDone, sweeperPc, sweepPending>>
    /\ UNCHANGED <<storeVars, ufVars>>
    /\ UNCHANGED outsideEngine

runBalanceFetcher_stop ==
    /\ driverPc = "select"
    /\ stopPc # "idle"
    /\ driverPc' = "exited"
    /\ wgCount' = wgDone(wgCount)
    /\ UNCHANGED <<started, stopPc, ctxDone, tickPending, sweeperPc, sweepPending>>
    /\ UNCHANGED <<storeVars, cycleVars, ufVars, histVars>>
    /\ UNCHANGED outsideEngine

runBalanceFetcher_ctxDone ==
    /\ driverPc = "select"
    /\ ctxDone
    /\ driverPc' = "exited"
    /\ wgCount' = wgDone(wgCount)
    /\ UNCHANGED <<started, stopPc, ctxDone, tickPending, sweeperPc, sweepPending>>
    /\ UNCHANGED <<storeVars, cycleVars, ufVars, histVars>>
    /\ UNCHANGED outsideEngine

-----------------------------------------------------------------------------
(* The dispatcher goroutine of a global cycle.                             *)

\* case taskChan <- task
dispatcher_send ==
    /\ dispPc = "run"
    /\ dispK <= NumPairs(enum)
    /\ Len(taskChan) < TaskChanCap
    /\ taskChan' = Append(taskChan, fetchTask(PairW(enum, dispK), PairT(enum, dispK), dispK))
    /\ dispK' = NextMatch(enum, dispK + 1)
    /\ hist' = [hist EXCEPT ![dispK].enq = @ + 1]
    /\ UNCHANGED <<nWorkers, fetchCtxDone, enum, dispPc, taskClosed, workers,
                   resultChan, resultClosed>>
    /\ UNCHANGED <<storeVars, lifeVars, ufVars, cyclesBegun, ticksConsumed, tally>>
    /\ UNCHANGED outsideEngine

\* case <-fetchCtx.Done(): return, running the deferred close(taskChan)
dispatcher_ctxDone ==
    /\ dispPc = "run"
    /\ dispK <= NumPairs(enum)
    /\ fetchCtxDone
    /\ dispPc' = "done"
    /\ taskClosed' = TRUE
    /\ UNCHANGED <<nWorkers, fetchCtxDone, enum, dispK, taskChan, workers,
                   resultChan, resultClosed>>
    /\ UNCHANGED <<storeVars, lifeVars, ufVars, histVars>>
    /\ UNCHANGED outsideEngine

\* the loops are over: the deferred close(taskChan)
dispatcher_close ==
    /\ dispPc = "run"
    /\ dispK > NumPairs(enum)
    /\ dispPc' = "done"
    /\ taskClosed' = TRUE
    /\ UNCHANGED <<nWorkers, fetchCtxDone, enum, dispK, taskChan, workers,
                   resultChan, resultClosed>>
    /\ UNCHANGED <<storeVars, lifeVars, ufVars, histVars>>
    /\ UNCHANGED outsideEngine

-----------------------------------------------------------------------------
(* balanceWorker.                                                          *)

\* a worker whose check of ctx.Done() is inverted
afterRecv_Inverted(task, done) ==
    IF ~done THEN [pc |-> "done", task |-> NoTask, ok |-> FALSE]
             ELSE [pc |-> "fetch", task |-> task, ok |-> FALSE]

\* what a worker does with a task it has received: the non-blocking check of
\* ctx.Done() drops the task and returns, otherwise the task is fetched
afterRecv(task, done) ==
    IF done THEN [pc |-> "done", task |-> NoTask, ok |-> FALSE]
            ELSE [pc |-> "fetch", task |-> task, ok |-> FALSE]

\* a receive that leaves the task in the channel
recvRest_Keep(ch) == ch

\* the channel after a receive
recvRest(ch) == Tail(ch)

balanceWorker_recv(w) ==
    /\ workers[w].pc = "recv"
    /\ taskChan # <<>>
    /\ taskChan' = recvRest(taskChan)
    /\ workers' = [workers EXCEPT ![w] = afterRecv(Head(taskChan), fetchCtxDone)]
    /\ hist' = [hist EXCEPT ![Head(taskChan).pair].taken = @ + 1]
    /\ UNCHANGED <<nWorkers, fetchCtxDone, enum, dispPc, dispK, taskClosed,
                   resultChan, resultClosed>>
    /\ UNCHANGED <<storeVars, lifeVars, ufVars, cyclesBegun, ticksConsumed, tally>>
    /\ UNCHANGED outsideEngine

\* range over a closed and drained taskChan ends; deferred wg.Done()
balanceWorker_closed(w) ==
    /\ workers[w].pc = "recv"
    /\ taskChan = <<>>
    /\ taskClosed
    /\ workers' = [workers EXCEPT ![w].pc = "done"]
    /\ UNCHANGED <<nWorkers, fetchCtxDone, enum, dispPc, dispK, taskChan, taskClosed,
                   resultChan, resultClosed>>
    /\ UNCHANGED <<storeVars, lifeVars, ufVars, histVars>>
    /\ UNCHANGED outsideEngine

\* GetETHBalance / GetTokenBalance returns a balance (ok) or an error
balanceWorker_fetch(w) ==
    /\ workers[w].pc = "fetch"
    /\ \E ok \in BOOLEAN :
         workers' = [workers EXCEPT ![w].pc = "send", ![w].ok = ok]
    /\ UNCHANGED <<nWorkers, fetchCtxDone, enum, dispPc, dispK, taskChan, taskClosed,
                   resultChan, resultClosed>>
    /\ UNCHANGED <<storeVars, lifeVars, ufVars, histVars>>
    /\ UNCHANGED outsideEngine

\* resultChan <- fetchResult{...}, then the sleep and the next iteration
balanceWorker_send(w) ==
    /\ workers[w].pc = "send"
    /\ Len(resultChan) < ResultChanCap
    /\ resultChan' = Append(resultChan, fetchResult(workers[w].task, workers[w].ok))
    /\ workers' = [workers EXCEPT ![w] = [pc |-> "recv", task |-> NoTask, ok |-> FALSE]]
    /\ hist' = [hist EXCEPT ![workers[w].task.pair].res = @ + 1]
    /\ UNCHANGED <<nWorkers, fetchCtxDone, enum, dispPc, dispK, taskChan, taskClosed,
                   resultClosed>>
    /\ UNCHANGED <<storeVars, lifeVars, ufVars, cyclesBegun, ticksConsumed, tally>>
    /\ UNCHANGED outsideEngine

\* a closer that does not wait for the workers
poolWait_NoWait(ws, n) == TRUE

\* wg.Wait() of the cycle's wait group lets the closer through: each of the n
\* workers has run its deferred wg.Done()
poolWait(ws, n) == \A w \in 1..n : ws[w].pc = "done"

\* go func() { wg.Wait(); close(resultChan) }()
closeResults ==
    /\ driverPc = "cycle"
    /\ ~resultClosed
    /\ poolWait(workers, nWorkers)
    /\ resultClosed' = TRUE
    /\ UNCHANGED <<nWorkers, fetchCtxDone, enum, dispPc, dispK, taskChan, taskClosed,
                   workers, resultChan>>
    /\ UNCHANGED <<storeVars, lifeVars, ufVars, histVars>>
    /\ UNCHANGED outsideEngine

-----------------------------------------------------------------------------
(* The collector: the range over resultChan in fetchAllBalances.           *)

collector_recv ==
    /\ driverPc = "cycle"
    /\ resultChan # <<>>
    /\ resultChan' = Tail(resultChan)
    /\ \E dbok \in BOOLEAN :
         LET result == Head(resultChan) IN
         IF ~result.ok
         THEN /\ tally' = [tally EXCEPT !.errorCount = @ + 1]
              /\ UNCHANGED <<balances, cache>>
         ELSE /\ storeBalance(result, fetchCtxDone, dbok, cacheUp)
              /\ tally' = IF storeBalanceErr(result, fetchCtxDone, dbok, cacheUp)
                          THEN [tally EXCEPT !.errorCount = @ + 1]
                          ELSE [tally EXCEPT !.successCount = @ + 1]
    /\ UNCHANGED <<wallets, tokens, now, cacheUp>>
    /\ UNCHANGED <<nWorkers, fetchCtxDone, enum, dispPc, dispK, taskChan, taskClosed,
                   workers, resultClosed>>
    /\ UNCHANGED <<lifeVars, ufVars, cyclesBegun, ticksConsumed, hist>>
    /\ UNCHANGED outsideEngine

\* resultChan is closed and drained: fetchAllBalances returns nil, deferred cancel()
collector_done ==
    /\ driverPc = "cycle"
    /\ resultChan = <<>>
    /\ resultClosed
    /\ driverPc' = "select"
    /\ fetchCtxDone' = cancel(fetchCtxDone)
    /\ tally' = [tally EXCEPT !.ret = cycleReturn(tally.errorCount),
                              !.deadline = fetchCtxDone]
    /\ UNCHANGED <<started, stopPc, wgCount, ctxDone, tickPending, sweeperPc,
                   sweepPending>>
    /\ UNCHANGED <<nWorkers, enum, dispPc, dispK, taskChan, taskClosed, workers,
                   resultChan, resultClosed>>
    /\ UNCHANGED <<storeVars, ufVars, cyclesBegun, ticksConsumed, hist>>
    /\ UNCHANGED outsideEngine

-----------------------------------------------------------------------------
(* runCleanup, the retention sweeper.                                      *)

cleanupTicker_fire ==
    /\ sweeperPc = "select"
    /\ ~sweepPending
    /\ sweepPending' = TRUE
    /\ UNCHANGED <<started, stopPc, wgCount, ctxDone, driverPc, tickPending, sweeperPc>>
    /\ UNCHANGED <<storeVars, cycleVars, ufVars, histVars>>
    /\ UNCHANGED outsideEngine

runCleanup_tick ==
    /\ sweeperPc = "select"
    /\ sweepPending
    /\ sweepPending' = FALSE
    /\ \E dbok \in BOOLEAN :
         balances' = IF dbok /\ ~ctxDone
                     THEN DeleteOldBalances(balances, RetentionDays)
                     ELSE balances
    /\ UNCHANGED <<wallets, tokens, now, cache, cacheUp>>
    /\ UNCHANGED <<started, stopPc, wgCount, ctxDone, driverPc, tickPending, sweeperPc>>
    /\ UNCHANGED <<cycleVars, ufVars, histVars>>
    /\ UNCHANGED outsideEngine

runCleanup_stop ==
    /\ sweeperPc = "select"
    /\ stopPc # "idle"
    /\ sweeperPc' = "exited"
    /\ wgCount' = wgDone(wgCount)
    /\ UNCHANGED <<started, stopPc, ctxDone, driverPc, tickPending, sweepPending>>
    /\ UNCHANGED <<storeVars, cycleVars, ufVars, histVars>>
    /\ UNCHANGED outsideEngine

runCleanup_ctxDone ==
    /\ sweeperPc = "select"
    /\ ctxDone
    /\ sweeperPc' = "exited"
    /\ wgCount' = wgDone(wgCount)
    /\ UNCHANGED <<started, stopPc, ctxDone, driverPc, tickPending, sweepPending>>
    /\ UNCHANGED <<storeVars, cycleVars, ufVars, histVars>>
    /\ UNCHANGED outsideEngine

\* more than a retention window passes
advanceTime ==
    /\ now + RetentionDays + 1 <= MaxDays
    /\ now' = now + RetentionDays + 1
    /\ UNCHANGED <<wallets, tokens, balances, cache, cacheUp>>
    /\ UNCHANGED <<lifeVars, cycleVars, ufVars, histVars>>
    /\ UNCHANGED outsideEngine

\* a day, or a retention window, passes
timePasses(d) ==
    /\ now + d <= MaxDays
    /\ d = 1 => now % RetentionDays < MaxDayTicks
    /\ now' = now + d
    /\ UNCHANGED <<wallets, tokens, balances, cache, cacheUp>>
    /\ UNCHANGED <<lifeVars, cycleVars, ufVars, histVars>>
    /\ UNCHANGED outsideEngine

-----------------------------------------------------------------------------
(* FetchBalancesForUser, the on-demand refresh.                            *)

\* the value FetchBalancesForUser returns at its end
ufFinalReturn == "nil"

FetchBalancesForUser_wallets(u) ==
    /\ uf.pc \in {"idle", "returned"}
    /\ uf.calls < MaxCalls
    /\ ufCtxDone' = FALSE
    /\ ufFetchDone' = FALSE
    /\ \E dbok \in BOOLEAN :
         uf' = IF dbok
               THEN [IdleUf EXCEPT !.pc = "tokens", !.user = u,
                                   !.ws = GetWalletsByUserID(u),
                                   !.calls = uf.calls + 1, !.stopAtCall = stopPc,
                                   !.base = Len(balances)]
               ELSE [IdleUf EXCEPT !.pc = "returned", !.user = u, !.ret = "err",
                                   !.calls = uf.calls + 1, !.stopAtCall = stopPc,
                                   !.base = Len(balances), !.listFailed = TRUE]
    /\ UNCHANGED <<storeVars, lifeVars, cycleVars, histVars>>
    /\ UNCHANGED outsideEngine

FetchBalancesForUser_tokens ==
    /\ uf.pc = "tokens"
    /\ \E dbok \in BOOLEAN :
         uf' = IF ufCtxDone
               THEN [uf EXCEPT !.pc = "returned", !.ret = "ctxErr",
                               !.listFailed = TRUE]
               ELSE IF ~dbok
               THEN [uf EXCEPT !.pc = "returned", !.ret = "err",
                               !.listFailed = TRUE]
               ELSE [uf EXCEPT !.pc = "loop", !.ts = GetTokensByUserID(uf.user),
                               !.k = 1]
    /\ UNCHANGED <<ufCtxDone, ufFetchDone>>
    /\ UNCHANGED <<storeVars, lifeVars, cycleVars, histVars>>
    /\ UNCHANGED outsideEngine

\* one iteration of the nested loops: fetchAndStoreBalance(fetchCtx, wallet, token)
FetchBalancesForUser_pair ==
    /\ uf.pc = "loop"
    /\ uf.k <= Len(uf.ws) * Len(uf.ts)
    /\ \E fetchok \in BOOLEAN, dbok \in BOOLEAN :
         LET wallet == uf.ws[((uf.k - 1) \div Len(uf.ts)) + 1]
             token  == uf.ts[((uf.k - 1) % Len(uf.ts)) + 1]
             err == fetchAndStoreErr(wallet, token, fetchok, ufFetchDone, dbok, cacheUp)
         IN  /\ fetchAndStoreBalance(wallet, token, fetchok, ufFetchDone, dbok, cacheUp)
             /\ uf' = [uf EXCEPT !.k = nextPair(uf.k, err, Len(uf.ws) * Len(uf.ts)),
                                 !.tried = @ + 1,
                                 !.failed = IF err THEN @ + 1 ELSE @,
                                 !.lastIn = [fetchok |-> fetchok, dbok |-> dbok,
                                             ctxdone |-> ufFetchDone],
                                 !.lastWrite = IF Len(balances') > Len(balances)
                                               THEN Len(balances') ELSE @]
    /\ UNCHANGED <<wallets, tokens, now, cacheUp, ufCtxDone, ufFetchDone>>
    /\ UNCHANGED <<lifeVars, cycleVars, histVars>>
    /\ UNCHANGED outsideEngine

\* the loops are over: cacheService.Delete(ctx, "user_balances:<id>"), return
FetchBalancesForUser_return ==
    /\ uf.pc = "loop"
    /\ uf.k > Len(uf.ws) * Len(uf.ts)
    /\ cache' = IF cacheUp /\ ~ufCtxDone
                THEN cache \ {UserBalancesKey(uf.user)}
                ELSE cache
    /\ uf' = [uf EXCEPT !.pc = "returned", !.ret = ufFinalReturn,
                        !.readsAtRet = getb.calls]
    /\ UNCHANGED <<wallets, tokens, balances, now, cacheUp, ufCtxDone, ufFetchDone>>
    /\ UNCHANGED <<lifeVars, cycleVars, histVars>>
    /\ UNCHANGED outsideEngine

\* the caller cancels the context of the call in flight (or its deadline passes)
ufCancel ==
    /\ uf.pc \in {"tokens", "loop"}
    /\ ~ufCtxDone
    /\ ufCtxDone' = TRUE
    /\ ufFetchDone' = (ufFetchDone \/ uf.pc = "loop")
    /\ uf' = [uf EXCEPT !.pending = (uf.pc = "tokens" \/ uf.k <= Len(uf.ws) * Len(uf.ts))]
    /\ UNCHANGED <<storeVars, lifeVars, cycleVars, histVars>>
    /\ UNCHANGED outsideEngine

\* the 2 minute timeout of the call's fetchCtx fires
ufDeadline ==
    /\ uf.pc = "loop"
    /\ ~ufFetchDone
    /\ ufFetchDone' = TRUE
    /\ UNCHANGED <<uf, ufCtxDone, storeVars, lifeVars, cycleVars, histVars>>
    /\ UNCHANGED outsideEngine

-----------------------------------------------------------------------------
(* The engine's specification.                                             *)

\* one global cycle after another, the lifecycle reduced to Start
CycleNext ==
    \/ Start
    \/ runBalanceFetcher_initial
    \/ ticker_fire
    \/ runBalanceFetcher_tick
    \/ fetchCtx_deadline
    \/ dispatcher_send
    \/ dispatcher_ctxDone
    \/ dispatcher_close
    \/ \E w \in 1..MaxWorkers : balanceWorker_recv(w)
    \/ \E w \in 1..MaxWorkers : balanceWorker_closed(w)
    \/ \E w \in 1..MaxWorkers : balanceWorker_fetch(w)
    \/ \E w \in 1..MaxWorkers : balanceWorker_send(w)
    \/ closeResults
    \/ collector_recv
    \/ collector_done

InitCycle == EngineInit(Populations, 0..MaxWorkers, {TRUE}) /\ OthersIdle

SpecCycle == InitCycle /\ [][CycleNext]_vars

\* the goroutines of a cycle are scheduled: each one that can take a step
\* takes one, and the chain and store calls return
CycleFairness ==
    /\ WF_vars(dispatcher_send \/ dispatcher_ctxDone \/ dispatcher_close)
    /\ \A w \in 1..MaxWorkers :
           WF_vars(balanceWorker_recv(w) \/ balanceWorker_closed(w)
                     \/ balanceWorker_fetch(w) \/ balanceWorker_send(w))
    /\ WF_vars(closeResults)
    /\ WF_vars(collector_recv \/ collector_done)

\* one user whose pairs are more than the task queue holds
InitCycleLive == EngineInit({PopOneUser}, 0..MaxWorkers, {TRUE}) /\ OthersIdle

SpecCycleLive == InitCycleLive /\ [][CycleNext]_vars /\ CycleFairness

\* Start, Stop, the driver with its cycles, the sweeper
LifecycleNext ==
    \/ CycleNext
    \/ Stop_close
    \/ Stop_return
    \/ cancelStartCtx
    \/ runBalanceFetcher_stop
    \/ runBalanceFetcher_ctxDone
    \/ cleanupTicker_fire
    \/ runCleanup_tick
    \/ runCleanup_stop
    \/ runCleanup_ctxDone

\* the goroutines are scheduled, and a select whose stop case is ready again
\* and again takes it at last (Go chooses among the ready cases at random)
LifecycleFairness ==
    /\ CycleFairness
    /\ WF_vars(runBalanceFetcher_initial)
    /\ SF_vars(runBalanceFetcher_stop)
    /\ SF_vars(runCleanup_stop)
    /\ WF_vars(Stop_return)

InitStopLive == EngineInit({PopOnePair}, {1}, {TRUE}) /\ OthersIdle

SpecStopLive == InitStopLive /\ [][LifecycleNext]_vars /\ LifecycleFairness

\* a close that is a no-op on a closed channel, as under a sync.Once
closeStopChan_Once(pc) == IF pc = "idle" THEN "closed" ELSE pc

\* close(bfs.stopChan): closing a closed channel panics
closeStopChan(pc) == IF pc = "idle" THEN "closed" ELSE "panicked"

\* a Stop call when stopChan is closed already, the first call waiting or returned
Stop_again ==
    /\ stopPc \in {"closed", "returned"}
    /\ stopPc' = closeStopChan(stopPc)
    /\ reuse' = [reuse EXCEPT !.stops = @ + 1]
    /\ UNCHANGED <<started, wgCount, ctxDone, driverPc, tickPending, sweeperPc,
                   sweepPending>>
    /\ UNCHANGED <<storeVars, cycleVars, ufVars, histVars>>
    /\ UNCHANGED <<rlVars, vaVars, gbVars, wlVars, wmVars, ucVars>>

\* a Start call after Stop has returned, the goroutines of the Start before it
\* gone: two goroutines are started, with the stopChan NewBalanceFetcherService
\* made
Start_again ==
    /\ stopPc = "returned"
    /\ driverPc = "exited" /\ sweeperPc = "exited"
    /\ cyclesBegun < MaxCycles
    /\ wgCount' = wgCount + 2
    /\ driverPc' = "initial"
    /\ sweeperPc' = "select"
    /\ reuse' = [reuse EXCEPT !.starts = @ + 1, !.cyclesAtStart = cyclesBegun]
    /\ UNCHANGED <<started, stopPc, ctxDone, tickPending, sweepPending>>
    /\ UNCHANGED <<storeVars, cycleVars, ufVars, histVars>>
    /\ UNCHANGED <<rlVars, vaVars, gbVars, wlVars, wmVars, ucVars>>

\* the service used again after Stop; a panic ends the process
ReuseNext ==
    \/ stopPc # "panicked" /\ LifecycleNext
    \/ stopPc # "panicked" /\ Start_again
    \/ Stop_again

InitReuse == EngineInit({PopOnePair}, {1}, {TRUE}) /\ OthersIdle

SpecReuse == InitReuse /\ [][ReuseNext]_vars

\* the scheduler as time passes
SchedulerNext ==
    \/ LifecycleNext
    \/ advanceTime

InitScheduler == EngineInit({PopOneUser}, 0..MaxWorkers, {TRUE}) /\ OthersIdle

SpecScheduler == InitScheduler /\ [][SchedulerNext]_vars

\* the on-demand refresh alone
RefreshNext ==
    \/ \E u \in Users : FetchBalancesForUser_wallets(u)
    \/ FetchBalancesForUser_tokens
    \/ FetchBalancesForUser_pair
    \/ FetchBalancesForUser_return
    \/ ufCancel
    \/ ufDeadline

InitRefresh == EngineInit(Populations, {MaxWorkers}, BOOLEAN) /\ OthersIdle

SpecRefresh == InitRefresh /\ [][RefreshNext]_vars

\* the scheduler with refreshes running beside it
ShutdownNext ==
    \/ LifecycleNext
    \/ RefreshNext

InitShutdown == EngineInit({PopOnePair}, {1}, {TRUE}) /\ OthersIdle

SpecShutdown == InitShutdown /\ [][ShutdownNext]_vars

-----------------------------------------------------------------------------
(* RateLimiter: NewRateLimiter, refill, Wait.                              *)

\* rl.ticker fires: one period of time.Second / rate has passed
rlTicker_fire ==
    /\ rlClock < RlMaxClock
    /\ rlClock' = rlClock + 1
    /\ rlTickPending' = TRUE
    /\ UNCHANGED <<rlTokens, rlAdded, rlCallers, rlGrants>>
    /\ UNCHANGED outsideRl

\* one iteration of refill: the send, or the default case when the bucket is full
refill ==
    /\ rlTickPending
    /\ rlTickPending' = FALSE
    /\ IF Len(rlTokens) < Rate
       THEN /\ rlTokens' = Append(rlTokens, rlAdded + 1)
            /\ rlAdded' = rlAdded + 1
       ELSE UNCHANGED <<rlTokens, rlAdded>>
    /\ UNCHANGED <<rlClock, rlCallers, rlGrants>>
    /\ UNCHANGED outsideRl

\* a goroutine calls Wait(ctx) with a context that is not done yet
Wait_call(c) ==
    /\ rlCallers[c].pc = "idle"
    /\ rlCallers' = [rlCallers EXCEPT ![c] = [pc |-> "waiting", ctxDone |-> FALSE,
                                              ret |-> "none"]]
    /\ UNCHANGED <<rlTokens, rlTickPending, rlClock, rlAdded, rlGrants>>
    /\ UNCHANGED outsideRl

rlCancel(c) ==
    /\ rlCallers[c].pc = "waiting"
    /\ ~rlCallers[c].ctxDone
    /\ rlCallers' = [rlCallers EXCEPT ![c].ctxDone = TRUE]
    /\ UNCHANGED <<rlTokens, rlTickPending, rlClock, rlAdded, rlGrants>>
    /\ UNCHANGED outsideRl

\* a Wait that reads the token and leaves it in the bucket
rlTake_Peek(ch) == ch

\* the bucket after the receive of case <-rl.tokens
rlTake(ch) == Tail(ch)

\* case <-rl.tokens: return nil
Wait_token(c) ==
    /\ rlCallers[c].pc = "waiting"
    /\ rlTokens # <<>>
    /\ rlTokens' = rlTake(rlTokens)
    /\ rlGrants' = Append(rlGrants, [caller |-> c, token |-> Head(rlTokens),
                                     at |-> rlClock])
    /\ rlCallers' = [rlCallers EXCEPT ![c].pc = "idle", ![c].ret = "nil"]
    /\ UNCHANGED <<rlTickPending, rlClock, rlAdded>>
    /\ UNCHANGED outsideRl

\* case <-ctx.Done(): return ctx.Err()
Wait_ctxDone(c) ==
    /\ rlCallers[c].pc = "waiting"
    /\ rlCallers[c].ctxDone
    /\ rlCallers' = [rlCallers EXCEPT ![c].pc = "idle", ![c].ret = "ctxErr"]
    /\ UNCHANGED <<rlTokens, rlTickPending, rlClock, rlAdded, rlGrants>>
    /\ UNCHANGED outsideRl

EngineIdle == EngineInit({PopOneUser}, {MaxWorkers}, {TRUE})

InitRateLimiter == EngineIdle /\ RlIdle /\ VaIdle /\ GbIdle /\ WlIdle /\ UcIdle /\ ReuseIdle

RateLimiterNext ==
    \/ rlTicker_fire
    \/ refill
    \/ \E c \in RlCallers : Wait_call(c)
    \/ \E c \in RlCallers : rlCancel(c)
    \/ \E c \in RlCallers : Wait_token(c)
    \/ \E c \in RlCallers : Wait_ctxDone(c)

SpecRateLimiter == InitRateLimiter /\ [][RateLimiterNext]_vars

-----------------------------------------------------------------------------
(* ValidateAddress.                                                        *)

\* the length ValidateAddress asks for
AddressLen == 42

HasPrefix(str, prefix) ==
    /\ Len(str) >= Len(prefix)
    /\ SubSeq(str, 1, Len(prefix)) = prefix

\* common.HexToAddress returns no error and its value is discarded
ValidateAddress(address) ==
    IF ~HasPrefix(address, <<"0", "x">>) THEN FALSE
    ELSE IF Len(address) # AddressLen THEN FALSE
    ELSE TRUE

\* the arguments tried: a prefix, then a body of one repeated character with
\* at most one character (the first or the last) replaced
VaPrefixes == {<<"0", "x">>, <<"0", "X">>, <<"x", "0">>, <<"0">>, <<>>}
VaBodyLens == {0, 39, 40, 41}
VaFill == {"0", "9", "a", "F"}
VaOdd == {"g", "z", " ", "G"}

VaBody(n, fill, pos, ch) == [i \in 1..n |-> IF i = pos THEN ch ELSE fill]

VaInputs ==
    {pre \o VaBody(n, fill, pos, ch) :
        pre \in VaPrefixes, n \in VaBodyLens, fill \in VaFill,
        pos \in {0, 1, 40}, ch \in VaOdd}

InitValidate ==
    /\ EngineIdle /\ RlIdle /\ GbIdle /\ WlIdle /\ UcIdle /\ ReuseIdle
    /\ vaAddress \in VaInputs
    /\ vaResult = <<>>

ValidateAddress_call ==
    /\ vaResult = <<>>
    /\ vaResult' = <<ValidateAddress(vaAddress)>>
    /\ UNCHANGED vaAddress
    /\ UNCHANGED outsideVa

ValidateNext == ValidateAddress_call

SpecValidate == InitValidate /\ [][ValidateNext]_vars

-----------------------------------------------------------------------------
(* GetETHBalance and GetTokenBalance: validation, the rate limiter, then   *)
(* the retry loop with its backoff.  The two functions differ in their     *)
(* arguments and in the network call only.                                 *)

\* for attempt := 1; attempt <= 3; attempt++
MaxAttempts == 3

\* time.Duration(1<<(attempt-1)) * time.Second, in seconds
Backoff_Doubled(attempt) == 2 ^ attempt

Backoff(attempt) == 2 ^ (attempt - 1)

\* a loop that also waits after its last attempt
backoffNeeded_Always(attempt) == TRUE

\* if attempt < 3
backoffNeeded(attempt) == attempt < MaxAttempts

\* the addresses a call is made with
GbHex      == <<"0", "x">> \o VaBody(40, "a", 0, "g")
GbNonHex   == <<"0", "x">> \o VaBody(40, "a", 1, "g")
GbShort    == <<"0", "x">> \o VaBody(39, "a", 0, "g")
GbNoPrefix == <<"x", "0">> \o VaBody(40, "a", 0, "g")
GbAddresses == {GbHex, GbNonHex, GbShort, GbNoPrefix}

GbReturn(kind, n) ==
    [gb EXCEPT !.pc = "returned", !.ret = [kind |-> kind, n |-> n]]

\* the guard at the head of the two functions
gbAddressesValid ==
    IF gb.kind = "eth"
    THEN ValidateAddress(gb.wallet)
    ELSE ValidateAddress(gb.token) /\ ValidateAddress(gb.wallet)

InitRetry ==
    /\ EngineIdle /\ RlIdle /\ VaIdle /\ WlIdle /\ UcIdle /\ ReuseIdle
    /\ \E wallet \in GbAddresses :
         \/ gb = GbCall("start", "eth", <<>>, wallet)
         \/ \E token \in GbAddresses : gb = GbCall("start", "token", token, wallet)
    /\ gbCtxDone = FALSE
    /\ gbTimerFired = FALSE

\* a balance call that goes to the network without the rate limiter
afterValidate_NoWait == "attempt"

\* what follows the validation: s.rateLimiter.Wait(ctx)
afterValidate == "wait"

GetBalance_validate ==
    /\ gb.pc = "start"
    /\ gb' = IF gbAddressesValid THEN [gb EXCEPT !.pc = afterValidate]
                                 ELSE GbReturn("invalid", 0)
    /\ UNCHANGED <<gbCtxDone, gbTimerFired, rlVars>>
    /\ UNCHANGED outsideGb

\* rateLimiter.Wait: case <-rl.tokens
GetBalance_token ==
    /\ gb.pc = "wait"
    /\ rlTokens # <<>>
    /\ rlTokens' = rlTake(rlTokens)
    /\ rlGrants' = Append(rlGrants, [caller |-> 0, token |-> Head(rlTokens),
                                     at |-> rlClock])
    /\ gb' = [gb EXCEPT !.pc = "attempt", !.attempt = 1]
    /\ UNCHANGED <<gbCtxDone, gbTimerFired, rlTickPending, rlClock, rlAdded, rlCallers>>
    /\ UNCHANGED outsideGb

\* rateLimiter.Wait: case <-ctx.Done()
GetBalance_waitCtxDone ==
    /\ gb.pc = "wait"
    /\ gbCtxDone
    /\ gb' = GbReturn("ctxErr", 0)
    /\ UNCHANGED <<gbCtxDone, gbTimerFired, rlVars>>
    /\ UNCHANGED outsideGb

\* fetchETHBalance / fetchTokenBalance: one network attempt; an attempt made
\* with a context that is done fails
GetBalance_fetch ==
    /\ gb.pc = "attempt"
    /\ \E ok \in (IF gbCtxDone THEN {FALSE} ELSE BOOLEAN) :
         gb' = IF ok
               THEN [gb EXCEPT !.pc = "returned", !.attempts = @ + 1,
                               !.ret = [kind |-> "balance", n |-> gb.attempt]]
               ELSE [gb EXCEPT !.pc = "failed", !.attempts = @ + 1,
                               !.causes = Append(@, gb.attempt)]
    /\ UNCHANGED <<gbCtxDone, gbTimerFired, rlVars>>
    /\ UNCHANGED outsideGb

\* after a failed attempt: ctx.Err(), then the backoff or the end of the loop
GetBalance_failed ==
    /\ gb.pc = "failed"
    /\ gb' = IF gbCtxDone THEN GbReturn("ctxErr", 0)
             ELSE IF backoffNeeded(gb.attempt)
             THEN [gb EXCEPT !.pc = "backoff", !.backoffs = @ + 1]
             ELSE IF gb.attempt < MaxAttempts
             THEN [gb EXCEPT !.pc = "attempt", !.attempt = @ + 1]
             ELSE GbReturn("after3", gb.causes[Len(gb.causes)])
    /\ gbTimerFired' = FALSE
    /\ UNCHANGED <<gbCtxDone, rlVars>>
    /\ UNCHANGED outsideGb

\* the backoff has passed: time.After's channel becomes ready
gbTimer_fire ==
    /\ gb.pc = "backoff"
    /\ ~gbTimerFired
    /\ gbTimerFired' = TRUE
    /\ UNCHANGED <<gb, gbCtxDone, rlVars>>
    /\ UNCHANGED outsideGb

\* case <-time.After(backoff): the next iteration, or the end of the loop
GetBalance_backoffOver ==
    /\ gb.pc = "backoff"
    /\ gbTimerFired
    /\ gb' = IF gb.attempt < MaxAttempts
             THEN [gb EXCEPT !.pc = "attempt", !.attempt = @ + 1,
                             !.waits = Append(@, Backoff(gb.attempt))]
             ELSE [GbReturn("after3", gb.causes[Len(gb.causes)])
                      EXCEPT !.waits = Append(@, Backoff(gb.attempt))]
    /\ UNCHANGED <<gbCtxDone, gbTimerFired, rlVars>>
    /\ UNCHANGED outsideGb

\* case <-ctx.Done() of the backoff's select
GetBalance_backoffCtxDone ==
    /\ gb.pc = "backoff"
    /\ gbCtxDone
    /\ gb' = GbReturn("ctxErr", 0)
    /\ UNCHANGED <<gbCtxDone, gbTimerFired, rlVars>>
    /\ UNCHANGED outsideGb

\* the caller's context is cancelled or its deadline passes
gbCancel ==
    /\ gb.pc \in {"start", "wait", "attempt", "failed", "backoff"}
    /\ ~gbCtxDone
    /\ gbCtxDone' = TRUE
    /\ gb' = [gb EXCEPT !.cancelledIn =
                 IF gb.pc = "backoff" /\ gbTimerFired THEN "backoffOver" ELSE gb.pc]
    /\ UNCHANGED <<gbTimerFired, rlVars>>
    /\ UNCHANGED outsideGb

RetryNext ==
    \/ rlTicker_fire
    \/ refill
    \/ GetBalance_validate
    \/ GetBalance_token
    \/ GetBalance_waitCtxDone
    \/ GetBalance_fetch
    \/ GetBalance_failed
    \/ gbTimer_fire
    \/ GetBalance_backoffOver
    \/ GetBalance_backoffCtxDone
    \/ gbCancel

SpecRetry == InitRetry /\ [][RetryNext]_vars

-----------------------------------------------------------------------------
(* watchlistService: GetBalances with its cache, RefreshBalances and       *)
(* DeleteToken with invalidateUserCache, beside the collector's            *)
(* storeBalance.                                                           *)

\* the rows of watchlist_wallets a raw JOIN meets: soft-deleted ones too
JoinedWallets == {wallets[k] : k \in 1..Len(wallets)} \cup deleted.wallets

\* the snapshots joined to a wallet row of the user that are the latest of
\* their (wallet, token) group, as read when the store held asOf snapshots
GetLatestBalances(u) ==
    [rows |-> {i \in 1..Len(balances) :
                 /\ \E w \in JoinedWallets :
                        w.ID = balances[i].WalletID /\ w.UserID = u
                 /\ \A j \in 1..Len(balances) :
                        (balances[j].WalletID = balances[i].WalletID
                           /\ balances[j].TokenID = balances[i].TokenID)
                        => balances[j].FetchedAt <= balances[i].FetchedAt},
     asOf |-> Len(balances)]

UserCacheKeys(u) ==
    {UserBalancesKey(u), <<"user_wallets", u>>, <<"user_tokens", u>>}

\* the cache after invalidateUserCache; a failing Delete is logged only
invalidateUserCache(c, u, cok) == IF cok THEN c \ UserCacheKeys(u) ELSE c

\* GetBalances up to its cache lookup: a hit returns the cached value, a miss
\* or a failing Get goes on to the store
GetBalances_get(u) ==
    /\ getb.pc \in {"idle", "returned"}
    /\ getb.calls < MaxReads
    /\ LET call == [IdleGetb EXCEPT
                      !.user = u, !.calls = getb.calls + 1,
                      !.afterRefresh = (/\ uf.pc = "returned"
                                        /\ ~uf.listFailed
                                        /\ uf.user = u
                                        /\ uf.readsAtRet = getb.calls),
                      !.opWrite = IF /\ rb.pc = "returned" /\ rb.ret = "nil"
                                     /\ rb.user = u /\ ~ufCtxDone
                                  THEN uf.lastWrite ELSE 0]
       IN  getb' = IF cacheUp /\ UserBalancesKey(u) \in cache
                   THEN [call EXCEPT !.pc = "returned", !.hit = TRUE,
                                     !.ret = <<cachedBalances[u]>>]
                   ELSE [call EXCEPT !.pc = "read"]
    /\ UNCHANGED <<cachedBalances, rb, dt, sb>>
    /\ UNCHANGED engineVars
    /\ UNCHANGED outsideWl

\* watchlistRepo.GetLatestBalances
GetBalances_read ==
    /\ getb.pc = "read"
    /\ \E dbok \in BOOLEAN :
         getb' = IF dbok
                 THEN [getb EXCEPT !.pc = "set", !.read = GetLatestBalances(getb.user)]
                 ELSE [getb EXCEPT !.pc = "returned", !.err = TRUE]
    /\ UNCHANGED <<cachedBalances, rb, dt, sb>>
    /\ UNCHANGED engineVars
    /\ UNCHANGED outsideWl

\* cacheService.Set(ctx, cacheKey, responses, 5*time.Minute), then the return
GetBalances_set ==
    /\ getb.pc = "set"
    /\ getb' = [getb EXCEPT !.pc = "returned", !.ret = <<getb.read>>]
    /\ IF cacheUp
       THEN /\ cache' = cache \cup {UserBalancesKey(getb.user)}
            /\ cachedBalances' = [cachedBalances EXCEPT ![getb.user] = getb.read]
       ELSE UNCHANGED <<cache, cachedBalances>>
    /\ UNCHANGED <<wallets, tokens, balances, now, cacheUp>>
    /\ UNCHANGED <<lifeVars, cycleVars, ufVars, histVars>>
    /\ UNCHANGED <<rb, dt, sb>>
    /\ UNCHANGED outsideWl

\* RefreshBalances: invalidateUserCache, then the call of FetchBalancesForUser
RefreshBalances_call(u) ==
    /\ rb.pc \in {"idle", "returned"}
    /\ uf.pc \in {"idle", "returned"}
    /\ uf.calls < MaxCalls
    /\ cache' = invalidateUserCache(cache, u, cacheUp)
    /\ rb' = [pc |-> "fetch", user |-> u, callNo |-> uf.calls, ret |-> "none"]
    /\ UNCHANGED <<wallets, tokens, balances, now, cacheUp>>
    /\ UNCHANGED <<lifeVars, cycleVars, ufVars, histVars>>
    /\ UNCHANGED <<cachedBalances, getb, dt, sb>>
    /\ UNCHANGED outsideWl

\* s.balanceFetcher.FetchBalancesForUser(ctx, userID)
RefreshBalances_fetch ==
    /\ rb.pc = "fetch"
    /\ uf.calls = rb.callNo
    /\ FetchBalancesForUser_wallets(rb.user)

\* RefreshBalances returns what FetchBalancesForUser returned
RefreshBalances_return ==
    /\ rb.pc = "fetch"
    /\ uf.calls = rb.callNo + 1
    /\ uf.pc = "returned"
    /\ rb' = [rb EXCEPT !.pc = "returned", !.ret = uf.ret]
    /\ UNCHANGED <<cachedBalances, getb, dt, sb>>
    /\ UNCHANGED engineVars
    /\ UNCHANGED outsideWl

\* watchlistRepo.DeleteToken: the rows with that id and user are deleted
DeleteToken_store(u, tid) ==
    /\ dt.pc \in {"idle", "returned"}
    /\ dt.calls < MaxDeletes
    /\ \E dbok \in BOOLEAN :
         IF dbok
         THEN /\ tokens' = DeleteToken(tokens, tid, u)
              /\ deleted' = [deleted EXCEPT !.tokens = @ \cup DeletedRows(tokens, tid, u)]
              /\ balances' = snapshotsAfterDelete(balances, DeletedRows(tokens, tid, u))
              /\ dt' = [pc |-> "invalidate", user |-> u, id |-> tid,
                        calls |-> dt.calls + 1, ret |-> "none"]
         ELSE /\ UNCHANGED <<tokens, balances, deleted>>
              /\ dt' = [pc |-> "returned", user |-> u, id |-> tid,
                        calls |-> dt.calls + 1, ret |-> "err"]
    /\ UNCHANGED <<wallets, now, cache, cacheUp>>
    /\ UNCHANGED <<lifeVars, cycleVars, ufVars, histVars>>
    /\ UNCHANGED <<cachedBalances, getb, rb, sb, wm, aw>>
    /\ UNCHANGED outsideWm

\* invalidateUserCache, return nil
DeleteToken_invalidate ==
    /\ dt.pc = "invalidate"
    /\ cache' = invalidateUserCache(cache, dt.user, cacheUp)
    /\ dt' = [dt EXCEPT !.pc = "returned", !.ret = "nil"]
    /\ UNCHANGED <<wallets, tokens, balances, now, cacheUp>>
    /\ UNCHANGED <<lifeVars, cycleVars, ufVars, histVars>>
    /\ UNCHANGED <<cachedBalances, getb, rb, sb>>
    /\ UNCHANGED outsideWl

\* the collector of a global cycle stores the result of one owner-matched pair
storeBalance_result ==
    /\ sb.calls < MaxStores
    /\ \E i \in 1..Len(wallets), j \in 1..Len(tokens), dbok \in BOOLEAN :
         LET result == fetchResult(fetchTask(wallets[i], tokens[j], 0), TRUE) IN
         /\ SameOwner(wallets[i], tokens[j])
         /\ storeBalance(result, FALSE, dbok, cacheUp)
         /\ sb' = [calls |-> sb.calls + 1, dbok |-> dbok,
                   err |-> storeBalanceErr(result, FALSE, dbok, cacheUp)]
    /\ UNCHANGED <<wallets, tokens, now, cacheUp>>
    /\ UNCHANGED <<lifeVars, cycleVars, ufVars, histVars>>
    /\ UNCHANGED <<cachedBalances, getb, rb, dt>>
    /\ UNCHANGED outsideWl

\* the users that call the watchlist service: those with a wallet
WalletUsers == {wallets[i].UserID : i \in 1..Len(wallets)}

\* reads of the aggregate balances beside on-demand refreshes
BalancesNext ==
    \/ \E u \in WalletUsers : GetBalances_get(u)
    \/ GetBalances_read
    \/ GetBalances_set
    \/ \E u \in WalletUsers : RefreshBalances_call(u)
    \/ RefreshBalances_fetch
    \/ RefreshBalances_return
    \/ FetchBalancesForUser_tokens
    \/ FetchBalancesForUser_pair
    \/ FetchBalancesForUser_return
    \/ ufCancel
    \/ ufDeadline

InitBalances == EngineInit({PopOneUser}, {MaxWorkers}, {TRUE}) /\ OthersIdle

SpecBalances == InitBalances /\ [][BalancesNext]_vars

\* no call of the watchlist service is in flight
NoCallInFlight ==
    /\ getb.pc \in {"idle", "returned"}
    /\ rb.pc \in {"idle", "returned"}
    /\ dt.pc \in {"idle", "returned"}

\* the operations that write or invalidate the cache, called one after another
\* while every cache Set and Delete fails
GetBalances_serial(u) == NoCallInFlight /\ GetBalances_get(u)

RefreshBalances_serial(u) == NoCallInFlight /\ RefreshBalances_call(u)

DeleteToken_serial(u, tid) == NoCallInFlight /\ DeleteToken_store(u, tid)

storeBalance_serial == NoCallInFlight /\ storeBalance_result

CacheFailureNext ==
    \/ \E u \in WalletUsers : GetBalances_serial(u)
    \/ GetBalances_read
    \/ GetBalances_set
    \/ \E u \in WalletUsers : RefreshBalances_serial(u)
    \/ RefreshBalances_fetch
    \/ RefreshBalances_return
    \/ FetchBalancesForUser_tokens
    \/ FetchBalancesForUser_pair
    \/ FetchBalancesForUser_return
    \/ \E u \in WalletUsers, tid \in {tokens[j].ID : j \in 1..Len(tokens)} :
           DeleteToken_serial(u, tid)
    \/ DeleteToken_invalidate
    \/ storeBalance_serial

InitCacheFailure == EngineInit({PopOneUser}, {MaxWorkers}, {FALSE}) /\ OthersIdle

SpecCacheFailure == InitCacheFailure /\ [][CacheFailureNext]_vars

\* GetBalances beside the global cycles of the driver
AggregateNext ==
    \/ CycleNext
    \/ \E u \in WalletUsers : GetBalances_get(u)
    \/ GetBalances_read
    \/ GetBalances_set

InitAggregate == EngineInit({PopOnePair}, {1}, {TRUE}) /\ OthersIdle

SpecAggregate == InitAggregate /\ [][AggregateNext]_vars

\* the two writers of snapshots: the refresh and a store of the collector,
\* with the cache up or down
StoreNext ==
    \/ RefreshNext
    \/ storeBalance_result

InitStore == EngineInit(Populations, {MaxWorkers}, BOOLEAN) /\ OthersIdle

SpecStore == InitStore /\ [][StoreNext]_vars

\* the sweeper beside the stores of the engine, as the days pass
SweeperNext ==
    \/ Start
    \/ cleanupTicker_fire
    \/ runCleanup_tick
    \/ \E u \in WalletUsers : FetchBalancesForUser_wallets(u)
    \/ FetchBalancesForUser_tokens
    \/ FetchBalancesForUser_pair
    \/ FetchBalancesForUser_return
    \/ \E d \in {1, RetentionDays} : timePasses(d)

InitSweeper == EngineInit({PopOneUser}, {MaxWorkers}, {TRUE}) /\ OthersIdle

SpecSweeper == InitSweeper /\ [][SweeperNext]_vars

-----------------------------------------------------------------------------
(* watchlistService: AddWallet, DeleteWallet, AddToken, GetBalanceHistory,  *)
(* beside DeleteToken, GetBalances and the engine's stores.                 *)

\* the addresses and symbols of the requests
WalletInputs == {"0xA", "0xC"}
TokenInputs == {[address |-> NIL, symbol |-> "ETH"], [address |-> "0xU", symbol |-> "USD"]}

\* the calls so far that change the watchlist
Mutations == wm.calls + dt.calls

\* a call of one of these operations begins
WmCall(op, u, id) ==
    [wm EXCEPT !.op = op, !.user = u, !.id = id, !.ret = "none", !.rows = {}]

\* valid: what web3Service.ValidateAddress answers for the request's address
AddWallet(u, a) ==
    /\ Mutations < MaxMutations
    /\ \E valid \in BOOLEAN, dbok \in BOOLEAN :
         LET call == [WmCall("AddWallet", u, 0) EXCEPT !.calls = @ + 1]
             mine == GetWalletsByUserID(u)
             id   == NextID(wallets, deleted.wallets)
         IN  IF ~valid
             THEN /\ wm' = [call EXCEPT !.ret = "ErrInvalidAddress"]
                  /\ UNCHANGED <<wallets, cache>>
             ELSE IF ~dbok
             THEN /\ wm' = [call EXCEPT !.ret = "err"]
                  /\ UNCHANGED <<wallets, cache>>
             ELSE IF \E i \in 1..Len(mine) : mine[i].WalletAddress = a
             THEN /\ wm' = [call EXCEPT !.ret = "ErrWalletAlreadyExists"]
                  /\ UNCHANGED <<wallets, cache>>
             ELSE /\ wallets' = Append(wallets, Wallet(id, u, a))
                  /\ cache' = invalidateUserCache(cache, u, cacheUp)
                  /\ wm' = [call EXCEPT !.ret = "nil", !.id = id]
    /\ UNCHANGED <<tokens, balances, now, cacheUp, deleted, aw>>
    /\ UNCHANGED <<lifeVars, cycleVars, ufVars, histVars>>
    /\ UNCHANGED wlVars
    /\ UNCHANGED outsideWm

\* AddWallet of a request that runs beside other requests, up to its test of
\* the user's wallets: ValidateAddress, GetWalletsByUserID, the loop
AddWallet_check(r, u, a) ==
    /\ aw[r].pc = "idle"
    /\ \E valid \in BOOLEAN, dbok \in BOOLEAN :
         LET call == [IdleAw EXCEPT !.user = u, !.address = a]
             mine == GetWalletsByUserID(u)
         IN  aw' = [aw EXCEPT ![r] =
                      IF ~valid
                      THEN [call EXCEPT !.pc = "returned", !.ret = "ErrInvalidAddress"]
                      ELSE IF ~dbok
                      THEN [call EXCEPT !.pc = "returned", !.ret = "err"]
                      ELSE IF \E i \in 1..Len(mine) : mine[i].WalletAddress = a
                      THEN [call EXCEPT !.pc = "returned", !.ret = "ErrWalletAlreadyExists"]
                      ELSE [call EXCEPT !.pc = "create"]]
    /\ UNCHANGED <<deleted, wm>>
    /\ UNCHANGED engineVars
    /\ UNCHANGED wlVars
    /\ UNCHANGED outsideWm

\* watchlistRepo.CreateWallet, invalidateUserCache, return the row
AddWallet_create(r) ==
    /\ aw[r].pc = "create"
    /\ \E dbok \in BOOLEAN :
         LET id == NextID(wallets, deleted.wallets) IN
         IF dbok
         THEN /\ wallets' = Append(wallets, Wallet(id, aw[r].user, aw[r].address))
              /\ cache' = invalidateUserCache(cache, aw[r].user, cacheUp)
              /\ aw' = [aw EXCEPT ![r].pc = "returned", ![r].ret = "nil", ![r].id = id]
         ELSE /\ aw' = [aw EXCEPT ![r].pc = "returned", ![r].ret = "err"]
              /\ UNCHANGED <<wallets, cache>>
    /\ UNCHANGED <<tokens, balances, now, cacheUp>>
    /\ UNCHANGED <<lifeVars, cycleVars, ufVars, histVars>>
    /\ UNCHANGED <<deleted, wm>>
    /\ UNCHANGED wlVars
    /\ UNCHANGED outsideWm

AddToken(u, req) ==
    /\ Mutations < MaxMutations
    /\ \E valid \in BOOLEAN, dbok \in BOOLEAN :
         LET call == [WmCall("AddToken", u, 0) EXCEPT !.calls = @ + 1]
             mine == GetTokensByUserID(u)
             id   == NextID(tokens, deleted.tokens)
         IN  IF req.address # NIL /\ ~valid
             THEN /\ wm' = [call EXCEPT !.ret = "ErrInvalidAddress"]
                  /\ UNCHANGED <<tokens, cache>>
             ELSE IF ~dbok
             THEN /\ wm' = [call EXCEPT !.ret = "err"]
                  /\ UNCHANGED <<tokens, cache>>
             ELSE IF \E i \in 1..Len(mine) : mine[i].TokenSymbol = req.symbol
             THEN /\ wm' = [call EXCEPT !.ret = "ErrTokenAlreadyExists"]
                  /\ UNCHANGED <<tokens, cache>>
             ELSE /\ tokens' = Append(tokens, TrackedToken(id, u, req.address, req.symbol))
                  /\ cache' = invalidateUserCache(cache, u, cacheUp)
                  /\ wm' = [call EXCEPT !.ret = "nil", !.id = id]
    /\ UNCHANGED <<wallets, balances, now, cacheUp, deleted, aw>>
    /\ UNCHANGED <<lifeVars, cycleVars, ufVars, histVars>>
    /\ UNCHANGED wlVars
    /\ UNCHANGED outsideWm

\* watchlistRepo.DeleteWallet, invalidateUserCache, return nil
DeleteWallet_call(u, id) ==
    /\ Mutations < MaxMutations
    /\ \E dbok \in BOOLEAN :
         LET call == [WmCall("DeleteWallet", u, id) EXCEPT !.calls = @ + 1] IN
         IF dbok
         THEN /\ wallets' = DeleteWallet(wallets, id, u)
              /\ deleted' = [deleted EXCEPT !.wallets = @ \cup DeletedRows(wallets, id, u)]
              /\ balances' = snapshotsAfterDelete(balances, DeletedRows(wallets, id, u))
              /\ cache' = invalidateUserCache(cache, u, cacheUp)
              /\ wm' = [call EXCEPT !.ret = "nil"]
         ELSE /\ UNCHANGED <<wallets, deleted, balances, cache>>
              /\ wm' = [call EXCEPT !.ret = "err"]
    /\ UNCHANGED <<tokens, now, cacheUp, aw>>
    /\ UNCHANGED <<lifeVars, cycleVars, ufVars, histVars>>
    /\ UNCHANGED wlVars
    /\ UNCHANGED outsideWm

\* GetWalletByID, the ownership test, GetBalanceHistory (limit above the number
\* of rows), GetTokenByID
GetBalanceHistory(u, wid, tid) ==
    /\ \E dbok \in BOOLEAN :
         LET call == WmCall("GetBalanceHistory", u, wid)
             w == FirstOf({i \in 1..Len(wallets) : wallets[i].ID = wid})
             t == FirstOf({i \in 1..Len(tokens) : tokens[i].ID = tid})
         IN  wm' = IF ~dbok \/ w = 0 \/ t = 0
                   THEN [call EXCEPT !.ret = "err"]
                   ELSE IF wallets[w].UserID # u
                   THEN [call EXCEPT !.ret = "wallet not found"]
                   ELSE [call EXCEPT !.ret = "nil",
                                     !.rows = {i \in 1..Len(balances) :
                                                 /\ balances[i].WalletID = wid
                                                 /\ balances[i].TokenID = tid}]
    /\ UNCHANGED <<deleted, aw>>
    /\ UNCHANGED engineVars
    /\ UNCHANGED wlVars
    /\ UNCHANGED outsideWm

\* the ids a request may name: those of the rows, and one of no row
WalletIDs == {wallets[i].ID : i \in 1..Len(wallets)}
TokenIDs == {tokens[i].ID : i \in 1..Len(tokens)}

\* the watchlist service beside on-demand refreshes and a store of the collector
\* the user whose requests arrive; the other user's rows stand by
Callers == {1}

DeleteToken_call(u, id) == Mutations < MaxMutations /\ DeleteToken_store(u, id)

\* the watchlist service beside on-demand refreshes
WatchlistNext ==
    \/ \E u \in Callers, a \in WalletInputs : AddWallet(u, a)
    \/ \E u \in Callers, req \in TokenInputs : AddToken(u, req)
    \/ \E u \in Callers, id \in WalletIDs : DeleteWallet_call(u, id)
    \/ \E u \in Callers, id \in TokenIDs : DeleteToken_call(u, id)
    \/ DeleteToken_invalidate
    \/ \E u \in Callers, wid \in WalletIDs, tid \in TokenIDs : GetBalanceHistory(u, wid, tid)
    \/ \E u \in Callers : FetchBalancesForUser_wallets(u)
    \/ FetchBalancesForUser_tokens
    \/ FetchBalancesForUser_pair
    \/ FetchBalancesForUser_return

InitWatchlist == EngineInit({PopSharedNative}, {MaxWorkers}, {TRUE}) /\ OthersIdle

SpecWatchlist == InitWatchlist /\ [][WatchlistNext]_vars

\* AddWallet requests of the users that run beside each other
AddWalletNext ==
    \/ \E r \in AwRequests, u \in Users, a \in WalletInputs : AddWallet_check(r, u, a)
    \/ \E r \in AwRequests : AddWallet_create(r)

InitAddWallet == EngineInit({PopSharedNative}, {MaxWorkers}, {TRUE}) /\ OthersIdle

SpecAddWallet == InitAddWallet /\ [][AddWalletNext]_vars

\* GetBalances beside DeleteWallet, on-demand refreshes and a store of the
\* collector, while a day passes
LatestNext ==
    \/ \E u \in Users : GetBalances_get(u)
    \/ GetBalances_read
    \/ GetBalances_set
    \/ \E u \in Callers, id \in WalletIDs : DeleteWallet_call(u, id)
    \/ \E u \in Users : FetchBalancesForUser_wallets(u)
    \/ FetchBalancesForUser_tokens
    \/ FetchBalancesForUser_pair
    \/ FetchBalancesForUser_return
    \/ storeBalance_result
    \/ timePasses(1)

InitLatest == EngineInit({PopSharedNative}, {MaxWorkers}, {TRUE}) /\ OthersIdle

SpecLatest == InitLatest /\ [][LatestNext]_vars

-----------------------------------------------------------------------------
(* UserCache over RedisClient.                                              *)

\* json.Marshal and json.Unmarshal of a models.User
Marshal(user) == <<"id", user.ID, "email", user.Email, "name", user.Name>>
Unmarshal(data) == User(data[2], data[4], data[6])

\* RedisClient.Set, Delete and Get on the entries, when redis answers
Set(entries, key, value) == [entries EXCEPT ![key] = Marshal(value)]

Delete_Noop(entries, key) == entries

Delete(entries, key) == [entries EXCEPT ![key] = <<>>]

\* what Get returns: the error and the value unmarshalled into dest
Get(entries, key) ==
    IF entries[key] = <<>>
    THEN [ret |-> "ErrCacheMiss", user |-> <<>>]
    ELSE [ret |-> "nil", user |-> <<Unmarshal(entries[key])>>]

\* rok: the redis call succeeds
ucSet(op, key, user) ==
    /\ \E rok \in BOOLEAN :
         IF rok
         THEN /\ userEntries' = Set(userEntries, key, user)
              /\ ucHist' = [ucHist EXCEPT ![key] = "set"]
              /\ uc' = [op |-> op, key |-> key, ret |-> "nil", user |-> <<user>>]
         ELSE /\ UNCHANGED <<userEntries, ucHist>>
              /\ uc' = [op |-> op, key |-> key, ret |-> "err", user |-> <<user>>]
    /\ UNCHANGED outsideUc

SetUserByID(user) == ucSet("SetUserByID", UserKey(user.ID), user)

SetUserByEmail(user) == ucSet("SetUserByEmail", UserEmailKey(user.Email), user)

ucGet(op, key) ==
    /\ \E rok \in BOOLEAN :
         uc' = IF rok
               THEN [op |-> op, key |-> key, ret |-> Get(userEntries, key).ret,
                     user |-> Get(userEntries, key).user]
               ELSE [op |-> op, key |-> key, ret |-> "err", user |-> <<>>]
    /\ UNCHANGED <<userEntries, ucHist>>
    /\ UNCHANGED outsideUc

GetUserByID(userID) == ucGet("GetUserByID", UserKey(userID))

GetUserByEmail(email) == ucGet("GetUserByEmail", UserEmailKey(email))

\* Delete of the key by id, then of the key by email; the first error returns
InvalidateUser(userID, email) ==
    /\ \E rok1 \in BOOLEAN, rok2 \in BOOLEAN :
         LET keyByID == UserKey(userID)
             keyByEmail == UserEmailKey(email)
             call == [op |-> "InvalidateUser", key |-> keyByID, ret |-> "err",
                      user |-> <<>>]
         IN  IF ~rok1
             THEN /\ UNCHANGED <<userEntries, ucHist>>
                  /\ uc' = call
             ELSE IF ~rok2
             THEN /\ userEntries' = Delete(userEntries, keyByID)
                  /\ UNCHANGED ucHist
                  /\ uc' = call
             ELSE /\ userEntries' = Delete(Delete(userEntries, keyByID), keyByEmail)
                  /\ ucHist' = [ucHist EXCEPT ![keyByID] = "invalidated",
                                              ![keyByEmail] = "invalidated"]
                  /\ uc' = [call EXCEPT !.ret = "nil"]
    /\ UNCHANGED outsideUc

\* the expiration given to Set (30 minutes) has passed for an entry
ucExpire(key) ==
    /\ userEntries[key] # <<>>
    /\ userEntries' = Delete(userEntries, key)
    /\ uc' = [op |-> "expire", key |-> key, ret |-> "none", user |-> <<>>]
    /\ UNCHANGED ucHist
    /\ UNCHANGED outsideUc

UserCacheNext ==
    \/ \E user \in UcUsers : SetUserByID(user)
    \/ \E user \in UcUsers : SetUserByEmail(user)
    \/ \E id \in UcIDs : GetUserByID(id)
    \/ \E email \in UcEmails : GetUserByEmail(email)
    \/ \E id \in UcIDs, email \in UcEmails : InvalidateUser(id, email)
    \/ \E key \in UcKeys : ucExpire(key)

InitUserCache == EngineIdle /\ OthersIdle

SpecUserCache == InitUserCache /\ [][UserCacheNext]_vars

-----------------------------------------------------------------------------
(* Properties.                                                              *)

\* C1: if the context passed to FetchBalancesForUser is cancelled while the call
\* still has work to do, the call returns a cancellation error, not nil.
C1_CancelledRefreshReturnsError ==
    (uf.pc = "returned" /\ ufCtxDone /\ uf.pending) => uf.ret = "ctxErr"

\* C2: no balance snapshot is created after Stop() has returned, whatever runs
\* beside it: the global cycle, the sweeper, and the FetchBalancesForUser calls
\* that were running when Stop() was called.
C2_NoSnapshotAfterStop ==
    [][(stopPc = "returned" /\ uf.stopAtCall = "idle")
        => Len(balances') <= Len(balances)]_vars

\* C3: Stop() returns only after the driver goroutine, every worker and the
\* collector of a cycle it has in flight, and the sweeper goroutine have exited.
C3_StopJoinsDriverAndSweeper ==
    stopPc = "returned" =>
        /\ driverPc = "exited"
        /\ sweeperPc = "exited"
        /\ \A w \in 1..MaxWorkers : workers[w].pc \in {"none", "done"}

C3_Witness ==
    /\ stopPc = "returned"
    /\ nWorkers = 2
    /\ Len(balances) >= 1
    /\ cyclesBegun = 2

\* C4: the driver begins one global cycle at once after Start(), then exactly one
\* per consumed tick, and begins none once Stop() has been called.
C4_OneCyclePerTickUntilStop ==
    [][/\ (driverPc' \notin {"none", "initial"} => cyclesBegun' = ticksConsumed' + 1)
       /\ (stopPc # "idle" => cyclesBegun' = cyclesBegun)]_vars

WalletOwner(id) == (CHOOSE w \in {wallets[i] : i \in 1..Len(wallets)} : w.ID = id).UserID
TokenOwner(id)  == (CHOOSE t \in {tokens[i] : i \in 1..Len(tokens)} : t.ID = id).UserID

\* C5: every persisted snapshot references a wallet and a token of the same user.
C5_SnapshotPairsOneOwner ==
    \A i \in 1..Len(balances) :
        WalletOwner(balances[i].WalletID) = TokenOwner(balances[i].TokenID)

CycleReturned == driverPc = "select" /\ hist # <<>>

\* C6 as stated: in a global cycle, T enqueued tasks give exactly T results, each
\* task taken by exactly one worker and answered by exactly one result.
C6_EveryTaskOneResult ==
    CycleReturned =>
        \A p \in DOMAIN hist : hist[p].taken = hist[p].enq /\ hist[p].res = hist[p].enq

\* C6 amended: a global cycle with at least one worker that returns with its
\* context not done has taken every enqueued task exactly once and produced
\* exactly one result for it.
C6_EveryTaskOneResultUnlessCancelled ==
    [][(driverPc = "cycle" /\ driverPc' = "select" /\ ~fetchCtxDone /\ nWorkers >= 1)
        => \A p \in DOMAIN hist :
               /\ hist[p].taken = hist[p].enq
               /\ hist[p].res = hist[p].enq
               /\ hist[p].enq <= 1]_vars

C6_Witness ==
    /\ driverPc = "cycle"
    /\ resultClosed
    /\ resultChan = <<>>
    /\ ~fetchCtxDone
    /\ nWorkers = 2
    /\ Cardinality({p \in DOMAIN hist : hist[p].res = 1}) = 2

PairOwnersEqual(p) ==
    enum.wallets[((p - 1) \div Len(enum.tokens)) + 1].UserID
        = enum.tokens[((p - 1) % Len(enum.tokens)) + 1].UserID

GrantsIn(lo, hi) == {i \in 1..Len(rlGrants) : rlGrants[i].at \in lo..hi}

\* C8: in any window of one second (Rate consecutive ticker periods) at most Rate
\* Wait calls succeed.
C8_AtMostRatePerSecond ==
    \A t \in 0..rlClock : Cardinality(GrantsIn(t - Rate + 1, t)) <= Rate

\* C9: a Wait that returns nil has removed exactly one token, a Wait returns the
\* context's error only when its context is done and removes none; the successful
\* Waits never outnumber the tokens refill has added, and no token is granted twice.
C9_TokensNeitherLostNorDoubled ==
    /\ Len(rlGrants) + Len(rlTokens) = rlAdded
    /\ Len(rlGrants) <= rlAdded
    /\ \A i, j \in 1..Len(rlGrants) : i # j => rlGrants[i].token # rlGrants[j].token
    /\ \A i \in 1..Len(rlGrants), k \in 1..Len(rlTokens) : rlGrants[i].token # rlTokens[k]
    /\ \A c \in RlCallers :
           /\ rlCallers[c].ret = "ctxErr" => rlCallers[c].ctxDone
           /\ rlCallers[c].ret = "nil" => \E i \in 1..Len(rlGrants) : rlGrants[i].caller = c

C9_Witness ==
    /\ Len(rlGrants) = 3
    /\ \E i, j \in 1..Len(rlGrants) : rlGrants[i].caller # rlGrants[j].caller
    /\ \E c \in RlCallers : rlCallers[c].ret = "ctxErr"

HexChars == {"0", "1", "2", "3", "4", "5", "6", "7", "8", "9",
             "a", "b", "c", "d", "e", "f", "A", "B", "C", "D", "E", "F"}

IsHexAddress(str) ==
    /\ Len(str) = 42
    /\ str[1] = "0"
    /\ str[2] = "x"
    /\ \A i \in 3..42 : str[i] \in HexChars

\* C10: ValidateAddress returns true exactly for 0x followed by 40 hexadecimal
\* characters.
C10_ValidIffHexAddress ==
    vaResult # <<>> => vaResult[1] = IsHexAddress(vaAddress)

\* a call that has returned, whose context was never done, and whose network
\* attempts all failed
GbAllFailed ==
    /\ gb.pc = "returned"
    /\ ~gbCtxDone
    /\ gb.attempts > 0
    /\ Len(gb.causes) = gb.attempts

C12_ThirdAttemptSucceeds ==
    /\ (gb.pc = "returned" /\ gb.causes = <<1, 2>> /\ gb.attempts = 3) =>
         /\ gb.ret = [kind |-> "balance", n |-> 3]
         /\ gb.waits = <<1, 2>>
    /\ (gb.pc = "returned" /\ gb.causes = <<1, 2>> /\ ~gbCtxDone) => gb.attempts = 3

C12_Witness ==
    /\ gb.pc = "returned"
    /\ gb.kind = "eth"
    /\ gb.causes = <<1, 2>>
    /\ gb.ret = [kind |-> "balance", n |-> 3]

\* C13: once the context is done when an attempt has failed, or becomes done
\* while a backoff wait is pending, the call starts no further network attempt
\* and no further backoff wait, and what it returns is the context's error.
C13_CancelStopsRetry ==
    [][(/\ gbCtxDone
        /\ \/ gb.pc = "failed"
           \/ gb.pc = "backoff" /\ gb.cancelledIn = "backoff")
       => /\ gb'.attempts = gb.attempts
          /\ gb'.backoffs = gb.backoffs
          /\ gb'.pc \in {gb.pc, "returned"}
          /\ gb'.pc = "returned" => gb'.ret.kind = "ctxErr"]_vars

\* the call was made with an address that is not 0x and 40 hexadecimal digits
GbInvalidInput ==
    \/ ~IsHexAddress(gb.wallet)
    \/ gb.kind = "token" /\ ~IsHexAddress(gb.token)

\* C14: a balance call with an invalid wallet (or token) address returns the
\* validation error at once: it takes no rate-limiter token and makes no
\* network attempt.
C14_InvalidAddressRejected ==
    GbInvalidInput =>
        /\ gb.pc \in {"start", "returned"}
        /\ gb.attempts = 0
        /\ rlGrants = <<>>
        /\ gb.pc = "returned" => gb.ret.kind = "invalid"

\* the pairs of the cycle's enumeration whose wallet and token have one owner
MatchedPairs == {p \in 1..NumPairs(enum) : PairOwnersEqual(p)}

C16_OnlyListingFailsRefresh ==
    /\ uf.listFailed => uf.tried = 0 /\ Len(balances) = uf.base
    /\ uf.pc = "returned" =>
         IF uf.listFailed
         THEN uf.ret \in {"err", "ctxErr"}
         ELSE uf.ret = "nil" /\ uf.tried = Len(uf.ws) * Len(uf.ts)

C16_Witness ==
    /\ uf.pc = "returned"
    /\ uf.ret = "nil"
    /\ uf.tried = 2
    /\ uf.failed = 1
    /\ Len(balances) = uf.base + 1

\* the snapshots the call in flight has persisted for wallet row wid, token row tid
UfSnapshots(wid, tid) ==
    {r \in (uf.base + 1)..Len(balances) :
        balances[r].WalletID = wid /\ balances[r].TokenID = tid}

\* C17: a FetchBalancesForUser(U) in which every chain call and store write
\* succeeds persists exactly |W_U| x |T_U| new snapshots, one for each of the
\* user's (wallet, token) pairs with that pair's wallet ID and token ID, and
\* returns nil.
C17_OneSnapshotPerPair ==
    (uf.pc = "returned" /\ ~uf.listFailed /\ uf.failed = 0) =>
        /\ uf.ret = "nil"
        /\ Len(balances) = uf.base + Len(uf.ws) * Len(uf.ts)
        /\ \A i \in 1..Len(uf.ws), j \in 1..Len(uf.ts) :
               Cardinality(UfSnapshots(uf.ws[i].ID, uf.ts[j].ID)) = 1

C17_Witness ==
    /\ uf.pc = "returned"
    /\ uf.failed = 0
    /\ Len(uf.ws) = 1
    /\ Len(uf.ts) = 2
    /\ Len(balances) = uf.base + 2
    /\ UfSnapshots(1, 1) # {}
    /\ UfSnapshots(1, 2) # {}

\* C18: FetchBalancesForUser(U) deletes the key user_balances:U after its last
\* snapshot write and before it returns; the next GetBalances(U) misses the
\* cache, reads the latest snapshots from the store and stores them under the
\* key again.
C18_KeyDeletedBeforeReturn ==
    [][/\ (uf.pc = "loop" /\ uf'.pc = "returned" /\ uf.lastWrite > 0) =>
              UserBalancesKey(uf.user) \notin cache'
       /\ (getb'.calls = getb.calls + 1 /\ getb'.afterRefresh) => getb'.pc = "read"
       /\ (getb.pc = "set" /\ getb'.pc = "returned" /\ getb.afterRefresh) =>
              /\ getb.read.asOf >= uf.lastWrite
              /\ UserBalancesKey(getb.user) \in cache'
              /\ cachedBalances'[getb.user] = getb.read]_vars

\* C19: once a RefreshBalances(U) has returned nil (cache operational, context
\* not cancelled), a GetBalances(U) that begins afterwards never returns
\* balances that were read from the store before the refresh's last snapshot,
\* whatever GetBalances(U) ran beside the refresh.
C19_NoStaleReadAfterInvalidation ==
    (cacheUp /\ getb.pc = "returned" /\ getb.opWrite > 0 /\ ~getb.err) =>
        getb.ret[1].asOf >= getb.opWrite

\* C20: while every cache Set and Delete fails, each operation has the result
\* and the store effect its store and network steps alone decide: a pair of
\* FetchBalancesForUser and a storeBalance persist their snapshot and succeed
\* exactly when the fetch and the store write succeed, FetchBalancesForUser and
\* DeleteToken return nil, and GetBalances returns what it read from the store.
C20_CacheFailureIsHarmless ==
    [][~cacheUp =>
        /\ (uf'.tried = uf.tried + 1) =>
              LET good == /\ uf'.lastIn.fetchok
                          /\ uf'.lastIn.dbok
                          /\ ~uf'.lastIn.ctxdone
              IN  /\ (Len(balances') = Len(balances) + 1) <=> good
                  /\ (uf'.failed = uf.failed) <=> good
        /\ (sb'.calls = sb.calls + 1) =>
              /\ sb'.err <=> ~sb'.dbok
              /\ (Len(balances') = Len(balances) + 1) <=> sb'.dbok
        /\ (uf.pc = "loop" /\ uf'.pc = "returned") => uf'.ret = "nil"
        /\ (rb.pc = "fetch" /\ rb'.pc = "returned" /\ ~uf.listFailed) =>
              rb'.ret = "nil"
        /\ (dt.pc = "invalidate" /\ dt'.pc = "returned") =>
              /\ dt'.ret = "nil"
              /\ balances' = balances
        /\ (getb.pc = "set" /\ getb'.pc = "returned") =>
              /\ getb'.ret = <<getb.read>>
              /\ getb.read = GetLatestBalances(getb.user)
              /\ ~getb'.err]_vars

C20_Witness ==
    /\ ~cacheUp
    /\ cache = {}
    /\ rb.pc = "returned"
    /\ rb.ret = "nil"
    /\ uf.tried = 2
    /\ uf.failed = 0
    /\ sb.calls = 1
    /\ ~sb.err
    /\ Len(balances) = 3
    /\ dt.pc = "returned"
    /\ dt.ret = "nil"
    /\ getb.pc = "returned"
    /\ ~getb.hit
    /\ getb.ret # <<>>
    /\ getb.ret[1].asOf = 3

\* C21: snapshots are append-only: every step of a run without the sweeper keeps
\* the rows there are as they are, a store that succeeds adds exactly one new
\* row stamped with the time of the store, and nothing else adds or changes a
\* row, also at and after a cancellation of the cycle.
C21_SnapshotsAppendOnly ==
    [][/\ Len(balances') \in {Len(balances), Len(balances) + 1}
       /\ SubSeq(balances', 1, Len(balances)) = balances
       /\ (tally'.successCount = tally.successCount + 1) <=>
              /\ Len(balances') = Len(balances) + 1
              /\ balances'[Len(balances')].FetchedAt = now]_vars

\* two full cycles over one pair have left two snapshots of the pair, the first
\* of them stored before the second cycle's context was done
C21_Witness ==
    /\ cyclesBegun = 2
    /\ tally.ret = "nil"
    /\ tally.deadline
    /\ Len(wallets) = 1
    /\ Cardinality({i \in 1..Len(balances) :
                       balances[i].WalletID = 1 /\ balances[i].TokenID = 1}) = 2

\* C22: at every reachable state every stored snapshot references a wallet and
\* a token that exist in the watchlist store, whatever DeleteWallet or
\* DeleteToken runs beside or after the FetchBalancesForUser that stored it.
C22_SnapshotsReferenceLiveRows ==
    \A i \in 1..Len(balances) :
        /\ balances[i].WalletID \in WalletIDs
        /\ balances[i].TokenID \in TokenIDs

\* C24: AddWallet, DeleteWallet, AddToken, DeleteToken and GetBalanceHistory
\* leave the stored snapshots as they are; a step that changes them is a
\* fetchAndStoreBalance of the engine, which adds one snapshot after the others.
C24_OnlyEngineWritesSnapshots ==
    [][/\ (wm' # wm \/ dt' # dt) => balances' = balances
       /\ balances' # balances =>
              /\ uf'.tried = uf.tried + 1
              /\ Len(balances') = Len(balances) + 1
              /\ SubSeq(balances', 1, Len(balances)) = balances]_vars

C24_Witness ==
    /\ wm.op = "DeleteWallet"
    /\ wm.ret = "nil"
    /\ dt.ret = "nil"
    /\ \E w \in deleted.wallets, t \in deleted.tokens, i \in 1..Len(balances) :
           balances[i].WalletID = w.ID /\ balances[i].TokenID = t.ID

Rows(seq) == {seq[i] : i \in 1..Len(seq)}

\* what a Delete of row id by user u may do to a table
OwnerOnlyDelete(before, after, u, id, ret) ==
    /\ \A r \in Rows(before) : r.UserID # u => r \in Rows(after)
    /\ \A r \in Rows(before) \ Rows(after) : r.ID = id /\ r.UserID = u
    /\ Rows(after) \subseteq Rows(before)
    /\ ret = "nil" => \A r \in Rows(after) : ~(r.ID = id /\ r.UserID = u)

\* C26: DeleteWallet(U, id) and DeleteToken(U, id) remove the row with that id
\* only if U owns it, and leave every row of another user, and every other
\* row, as it is.
C26_DeleteOnlyOwnRows ==
    [][/\ (wm'.calls = wm.calls + 1 /\ wm'.op = "DeleteWallet") =>
              /\ OwnerOnlyDelete(wallets, wallets', wm'.user, wm'.id, wm'.ret)
              /\ tokens' = tokens
       /\ (dt'.calls = dt.calls + 1) =>
              /\ OwnerOnlyDelete(tokens, tokens', dt'.user, dt'.id,
                                 IF dt'.pc = "invalidate" THEN "nil" ELSE dt'.ret)
              /\ wallets' = wallets]_vars

\* user 1 has asked to delete wallet 2 of user 2, which is still there, and its
\* own token 1, which is gone
C26_Witness ==
    /\ wm.op = "DeleteWallet"
    /\ wm.user = 1
    /\ wm.id = 2
    /\ wm.ret = "nil"
    /\ \E r \in Rows(wallets) : r.ID = 2 /\ r.UserID = 2
    /\ dt.ret = "nil"
    /\ dt.id = 1
    /\ 1 \notin TokenIDs
    /\ deleted.wallets = {}

\* the snapshots inside the retention window, in their order
InRetention(bs) == SelectSeq(bs, LAMBDA b : b.FetchedAt >= now - RetentionDays)

\* C23: a run of the sweeper either fails and leaves the snapshots as they are,
\* or leaves no snapshot fetched before now - 30 days and every snapshot
\* fetched at or after that cutoff as it was.
C23_SweepKeepsRetentionWindow ==
    [][(sweepPending /\ ~sweepPending') =>
          \/ balances' = balances
          \/ /\ \A i \in 1..Len(balances') :
                    balances'[i].FetchedAt >= now - RetentionDays
             /\ balances' = InRetention(balances)]_vars

\* two snapshots were stored, the sweeper has removed one, and the one fetched
\* exactly at the cutoff is still there
C23_Witness ==
    /\ uf.tried = 2
    /\ uf.failed = 0
    /\ Len(balances) = 1
    /\ now > RetentionDays
    /\ \E i \in 1..Len(balances) : balances[i].FetchedAt = now - RetentionDays
    /\ \A i \in 1..Len(balances) : balances[i].FetchedAt >= now - RetentionDays

\* the snapshots of the wallets the user has now that are the latest of their
\* (wallet, token) pair
LatestOfOwnWallets(u) ==
    {i \in 1..Len(balances) :
       /\ \E k \in 1..Len(wallets) :
              wallets[k].ID = balances[i].WalletID /\ wallets[k].UserID = u
       /\ \A j \in 1..Len(balances) :
              (balances[j].WalletID = balances[i].WalletID
                 /\ balances[j].TokenID = balances[i].TokenID)
              => balances[j].FetchedAt <= balances[i].FetchedAt}

\* C25: on a cache miss GetBalances(U) reads, for each wallet-token pair of
\* U's wallets with a snapshot, the snapshots of the maximum fetch timestamp
\* of that pair, and nothing else.
C25_LatestSnapshotPerOwnPair ==
    [][(getb.pc = "read" /\ getb'.pc = "set")
         => getb'.read.rows = LatestOfOwnWallets(getb.user)]_vars

UcGets == {"GetUserByID", "GetUserByEmail"}
UcSets == {"SetUserByID", "SetUserByEmail"}

C28_ResultPersistedForItsPair ==
    [][(/\ driverPc = "cycle" /\ resultChan # <<>> /\ resultChan' = Tail(resultChan)
        /\ Head(resultChan).ok /\ ~fetchCtxDone
        /\ tally'.successCount = tally.successCount + 1)
         => /\ Len(balances') = Len(balances) + 1
            /\ SubSeq(balances', 1, Len(balances)) = balances
            /\ balances'[Len(balances')].WalletID = PairW(enum, Head(resultChan).pair).ID
            /\ balances'[Len(balances')].TokenID = PairT(enum, Head(resultChan).pair).ID]_vars

\* C29: the number of network attempts the chain client has issued, retries
\* included, never exceeds the number of tokens the rate limiter has granted.
C29_AttemptsWithinGrants == gb.attempts <= Len(rlGrants)

\* C30: once the context of a cycle is done, that cycle enqueues no further
\* pair (global cycle), starts the fetch of no further pair (per-user cycle)
\* and persists no further snapshot.
C30_NothingNewAfterCancellation ==
    [][/\ (fetchCtxDone /\ driverPc = "cycle" /\ driverPc' = "cycle") =>
             /\ \A p \in DOMAIN hist : hist'[p].enq = hist[p].enq
             /\ balances' = balances
       /\ (ufFetchDone /\ uf.pc = "loop") =>
             /\ uf'.tried = uf.tried
             /\ balances' = balances]_vars

\* C31: every global cycle terminates: the collector finishes and
\* fetchAllBalances returns, the dispatcher closes the task queue, every worker
\* exits and the result stream is closed, for every pool size from 0 and with
\* more pairs than the task queue holds.
C31_CycleTerminates ==
    /\ (driverPc = "cycle") ~> (driverPc = "select")
    /\ (dispPc = "run") ~> (dispPc = "done" /\ taskClosed)
    /\ (driverPc = "cycle") ~> resultClosed
    /\ \A w \in 1..MaxWorkers :
           (workers[w].pc \in {"recv", "fetch", "send"}) ~> (workers[w].pc = "done")

\* a cycle without workers and with more pairs than the task queue holds has
\* returned and its dispatcher has closed the queue
C31_Witness ==
    /\ driverPc = "select" /\ tally.ret = "nil" /\ ~tally.enumFailed
    /\ nWorkers = 0
    /\ Cardinality({p \in 1..NumPairs(enum) : SameOwner(PairW(enum, p), PairT(enum, p))})
          > TaskChanCap
    /\ dispPc = "done" /\ taskClosed /\ resultClosed

\* C32: once Stop() has closed the stop channel, the driver and the sweeper
\* each leave their loop and signal the wait group, and Stop() returns.
C32_StopReturns ==
    /\ (stopPc = "closed") ~> (stopPc = "returned")
    /\ (stopPc = "closed") ~> (driverPc = "exited" /\ sweeperPc = "exited" /\ wgCount = 0)

\* Stop() has returned after it was called with a cycle in flight and a tick
\* pending, the context of Start not cancelled
C32_Witness ==
    /\ stopPc = "returned" /\ ~ctxDone
    /\ driverPc = "exited" /\ sweeperPc = "exited"
    /\ tickPending /\ cyclesBegun = 1 /\ tally.ret = "nil" /\ ~tally.enumFailed

\* C33: a balance call makes a network attempt only after it has acquired a
\* rate-limiter token, and a call whose acquisition ended with the context
\* done returns the context's error having made no network attempt.
C33_TokenBeforeAttempt ==
    /\ gb.attempts > 0 => rlGrants # <<>>
    /\ (gb.pc = "attempt" /\ gb.attempt = 1) => rlGrants # <<>>
    /\ (gb.pc = "returned" /\ rlGrants = <<>> /\ ~GbInvalidInput) =>
          (gb.ret.kind = "ctxErr" /\ gb.attempts = 0)

\* a token call cancelled while it waited for its token
C33_Witness ==
    /\ gb.pc = "returned" /\ gb.kind = "token" /\ gb.cancelledIn = "wait"
    /\ rlGrants = <<>> /\ gb.ret.kind = "ctxErr" /\ gb.attempts = 0

\* C34: in a global cycle, cut short or not, every enqueued task is taken by
\* at most one worker and answered by at most one result, and there are never
\* more results than tasks taken from the queue.
C34_AtMostOneResultPerTask ==
    /\ \A p \in DOMAIN hist :
           /\ hist[p].taken <= 1
           /\ hist[p].taken <= hist[p].enq
           /\ hist[p].res <= hist[p].taken
    /\ Len(resultChan) + tally.successCount + tally.errorCount
          <= Cardinality({p \in DOMAIN hist : hist[p].taken > 0})

\* a cycle has returned in which a task was taken after the deadline and
\* dropped, beside one that was answered
C34_Witness ==
    /\ driverPc = "select" /\ tally.deadline
    /\ \E p \in DOMAIN hist : hist[p].taken = 1 /\ hist[p].res = 0
    /\ \E p \in DOMAIN hist : hist[p].taken = 1 /\ hist[p].res = 1

\* C35: the global cycles of the driver never overlap: a cycle begins only
\* when the driver is not inside fetchAllBalances, the previous call having
\* returned, also when ticks arrive while a cycle runs.
C35_CyclesNeverOverlap ==
    [][cyclesBegun' # cyclesBegun =>
          /\ driverPc \in {"initial", "select"}
          /\ cyclesBegun > 0 => tally.ret # "none"]_vars

\* the second cycle runs, begun by a tick after the first cycle had returned
C35_Witness ==
    /\ cyclesBegun = 2 /\ ticksConsumed = 1
    /\ driverPc = "cycle" /\ ~tickPending
    /\ \E p \in DOMAIN hist : hist[p].taken = 1

\* C36: a per-pair cache entry balance:<walletID>:<tokenID> is written only
\* in a step that has persisted the snapshot of that wallet and token; a
\* step whose snapshot write fails, or whose rows are not found, writes no
\* cache entry.
C36_CacheEntryOnlyAfterSnapshot ==
    [][/\ \A k \in cache' \ cache :
             k[1] = "balance" =>
                /\ Len(balances') = Len(balances) + 1
                /\ SubSeq(balances', 1, Len(balances)) = balances
                /\ k = BalanceKey(balances'[Len(balances')].WalletID,
                                  balances'[Len(balances')].TokenID)
       /\ balances' = balances => cache' \subseteq cache]_vars

\* a refresh has stored a snapshot and its cache entry, and a store of the
\* collector has failed at the snapshot write and left no entry
C36_Witness ==
    /\ cacheUp /\ sb.calls = 1 /\ sb.err /\ ~sb.dbok
    /\ uf.lastWrite = 1 /\ Len(balances) = 1
    /\ cache = {BalanceKey(balances[1].WalletID, balances[1].TokenID)}

\* C37: no step of a global cycle deletes or rewrites an aggregate entry
\* user_balances:<U>, the keys it adds are per-pair balance:<w>:<t> keys, and
\* a GetBalances(U) that finds the aggregate entry returns what was cached,
\* also after the cycle has persisted newer snapshots.
C37_CycleLeavesAggregateEntries ==
    [][/\ getb' = getb =>
             /\ cachedBalances' = cachedBalances
             /\ \A u \in Users : UserBalancesKey(u) \in cache' <=> UserBalancesKey(u) \in cache
             /\ \A k \in cache' \ cache : k[1] = "balance"
       /\ (getb' # getb /\ getb'.pc = "returned" /\ getb'.hit) =>
             getb'.ret = <<cachedBalances[getb'.user]>>]_vars

\* a GetBalances has returned the aggregate entry cached before the cycle
\* stored a newer snapshot
C37_Witness ==
    /\ getb.pc = "returned" /\ getb.hit
    /\ getb.ret[1].asOf < Len(balances)
    /\ tally.successCount > 0

\* C38: the watchlist of a user never holds two wallets with the same address,
\* also when AddWallet calls of one user and one address run beside each other.
C38_NoDuplicateWalletAddress ==
    \A i, j \in 1..Len(wallets) :
        (wallets[i].UserID = wallets[j].UserID
            /\ wallets[i].WalletAddress = wallets[j].WalletAddress) => i = j

C40_NoSendAfterCloseNoDoubleClose ==
    [][/\ cyclesBegun' = cyclesBegun =>
             /\ (\E p \in 1..Len(hist) : hist'[p].enq > hist[p].enq) =>
                    (~taskClosed /\ ~taskClosed' /\ dispPc' = "run")
             /\ (\E p \in 1..Len(hist) : hist'[p].res > hist[p].res) =>
                    (~resultClosed /\ ~resultClosed')
             /\ taskClosed => (taskClosed' /\ dispPc = "done" /\ dispPc' = "done")
             /\ resultClosed => resultClosed'
       /\ (taskClosed' /\ ~taskClosed) => (dispPc = "run" /\ dispPc' = "done")
       /\ (resultClosed' /\ ~resultClosed) =>
             \A w \in 1..nWorkers : workers[w].pc = "done" /\ workers'[w].pc = "done"]_vars

\* both channels of a cycle are closed, results were sent before, and one is
\* still buffered for the collector
C40_Witness ==
    /\ driverPc = "cycle"
    /\ taskClosed /\ resultClosed
    /\ nWorkers = MaxWorkers
    /\ resultChan # <<>>
    /\ \E p \in 1..Len(hist) : hist[p].enq = 1 /\ hist[p].res = 1

====
